---- MODULE Spec2Model ----
(***************************************************************************)
(* Trading Simulator MCP bridge: the tool Dispatcher (index.ts) and the    *)
(* authenticated HTTP Client (api-client.ts).                              *)
(*                                                                         *)
(* The repository holds two builds of the pair:                            *)
(*   "main"    src/src/index.ts + src/src/api-client.ts                    *)
(*             (the Client throws on every failure)                        *)
(*   "profile" the index.ts kept in src/.agent/backlog.md (lines 182-864)  *)
(*             + the api-client.ts kept in src/unnamed/part_005            *)
(*             (the Client returns an ErrorResponse object instead)        *)
(* and two Clients that a program constructs and calls directly, as the   *)
(* unit tests do:                                                          *)
(*   "client"  the Client of src/src/api-client.ts                         *)
(*   "signed"  the HMAC-signing Client kept in src/unnamed/part_002, whose *)
(*             executeTrade consults the token table and may send a        *)
(*             second request                                              *)
(* The variable build says which of them is running.                       *)
(***************************************************************************)
EXTENDS Integers, Sequences, FiniteSets, TLC

VARIABLES
    build,      \* which build of index.ts/api-client.ts is running
    ctorArgs,   \* the arguments the Client was constructed with
    client,     \* the shared TradingSimulatorClient: [apiKey, baseUrl, debug]
    slots,      \* the call slots the host uses (calls in flight at once)
    call,       \* call[c]: the state of the tool call in slot c
    served,     \* number of call_tool requests (or direct method calls)
                \* presented so far
    stdout      \* what the server process has written to standard output

vars == <<build, ctorArgs, client, slots, call, served, stdout>>

(***************************************************************************)
(* Bounds                                                                  *)
(***************************************************************************)
MaxCalls == 2           \* call_tool requests presented in one run
MaxPings == 2           \* keep-alive timer ticks in one run

CallIds == {1, 2}

(***************************************************************************)
(* JavaScript values of an argument bag                                    *)
(***************************************************************************)
Str(s) == [t |-> "string", s |-> s, n |-> 0]
Num(n) == [t |-> "number", s |-> "", n |-> n]

\* JavaScript truthiness of an argument value: if (options.limit) ...
Truthy(v) == IF v.t = "string" THEN v.s # "" ELSE v.n # 0

\* value.toString() / template-literal conversion
ToStr(v) == IF v.t = "string" THEN v.s ELSE ToString(v.n)

\* The argument bag of a request: absent (undefined), or an object.
NoArgs == [present |-> FALSE, bag |-> <<>>]
Args(f) == [present |-> TRUE, bag |-> f]

\* "k" in args
In(k, a) == k \in DOMAIN a.bag

(***************************************************************************)
(* JSON values (what JSON.parse returns)                                   *)
(***************************************************************************)
JUndef == [jt |-> "undefined"]
JNull == [jt |-> "null"]
JStr(s) == [jt |-> "string", s |-> s]
JNum(n) == [jt |-> "number", n |-> n]
JBool(b) == [jt |-> "boolean", b |-> b]
JArr(items) == [jt |-> "array", items |-> items]
\* an object keeps its members in insertion order: <<key, value>> pairs
JObj(members) == [jt |-> "object", members |-> members]

HasKey(v, k) ==
    /\ v.jt = "object"
    /\ \E i \in 1..Len(v.members) : v.members[i][1] = k

\* v.k for a value that is neither null nor undefined
Get(v, k) ==
    IF HasKey(v, k)
    THEN LET i == CHOOSE j \in 1..Len(v.members) : v.members[j][1] = k
         IN  v.members[i][2]
    ELSE JUndef

Nullish(v) == v.jt \in {"null", "undefined"}

\* JavaScript truthiness of a JSON value
JTruthy(v) ==
    CASE v.jt = "string" -> v.s # ""
      [] v.jt = "number" -> v.n # 0
      [] v.jt = "boolean" -> v.b
      [] v.jt \in {"null", "undefined"} -> FALSE
      [] OTHER -> TRUE

\* String(v), as new Error(v) applies it to its argument
JString(v) ==
    CASE v.jt = "string" -> v.s
      [] v.jt = "number" -> ToString(v.n)
      [] v.jt = "boolean" -> IF v.b THEN "true" ELSE "false"
      [] v.jt = "null" -> "null"
      [] v.jt = "undefined" -> "undefined"
      [] v.jt = "array" -> "[array]"
      [] OTHER -> "[object Object]"

(***************************************************************************)
(* JSON.stringify(value, null, gap): gap = "" is the compact form of a     *)
(* request body, gap = "  " the readable form of a tool result.            *)
(***************************************************************************)
\* a string in double quotes, with the escapes JSON.stringify writes
RECURSIVE Escape(_)
Escape(s) ==
    IF s = "" THEN ""
    ELSE LET c == SubSeq(s, 1, 1)
         IN  (CASE c = "\"" -> "\\\""
                [] c = "\\" -> "\\\\"
                [] c = "\n" -> "\\n"
                [] OTHER -> c)
             \o Escape(SubSeq(s, 2, Len(s)))

Quote(s) == "\"" \o Escape(s) \o "\""

RECURSIVE JsonText(_, _, _)
RECURSIVE JsonMembers(_, _, _, _)
RECURSIVE JsonItems(_, _, _, _)

Newline(gap, indent) == IF gap = "" THEN "" ELSE "\n" \o indent

JsonMembers(ms, gap, indent, first) ==
    IF ms = <<>> THEN ""
    ELSE IF Head(ms)[2].jt = "undefined"
         THEN JsonMembers(Tail(ms), gap, indent, first)
         ELSE (IF first THEN "" ELSE ",") \o Newline(gap, indent)
              \o Quote(Head(ms)[1]) \o ":" \o (IF gap = "" THEN "" ELSE " ")
              \o JsonText(Head(ms)[2], gap, indent)
              \o JsonMembers(Tail(ms), gap, indent, FALSE)

JsonItems(items, gap, indent, first) ==
    IF items = <<>> THEN ""
    ELSE (IF first THEN "" ELSE ",") \o Newline(gap, indent)
         \o (IF Head(items).jt = "undefined" THEN "null"
             ELSE JsonText(Head(items), gap, indent))
         \o JsonItems(Tail(items), gap, indent, FALSE)

JsonText(v, gap, indent) ==
    CASE v.jt = "null" -> "null"
      [] v.jt = "string" -> Quote(v.s)
      [] v.jt = "number" -> ToString(v.n)
      [] v.jt = "boolean" -> (IF v.b THEN "true" ELSE "false")
      [] v.jt = "array" ->
            IF v.items = <<>> THEN "[]"
            ELSE "[" \o JsonItems(v.items, gap, indent \o gap, TRUE)
                 \o Newline(gap, indent) \o "]"
      [] v.jt = "object" ->
            IF \A i \in 1..Len(v.members) : v.members[i][2].jt = "undefined"
            THEN "{}"
            ELSE "{" \o JsonMembers(v.members, gap, indent \o gap, TRUE)
                 \o Newline(gap, indent) \o "}"
      [] OTHER -> "undefined"

\* JSON.stringify(body), the text of a request body
Stringify(v) == JsonText(v, "", "")

\* String(response) in place of JSON.stringify(response, null, 2)
StringOfResponse(v) == JString(v)

\* JSON.stringify(response, null, 2), the text of a successful tool result
StringifyPretty(v) == JsonText(v, "  ", "")

\* an argument value as the member of a request payload
ArgJson(v) == IF v.t = "string" THEN JStr(v.s) ELSE JNum(v.n)

(***************************************************************************)
(* Text helpers                                                            *)
(***************************************************************************)
Char(s, i) == SubSeq(s, i, i)

EndsWith(s, c) == Len(s) > 0 /\ Char(s, Len(s)) = c

Whitespace == {" ", "\n", "\t", "\r"}

RECURSIVE TrimLeft(_)
TrimLeft(s) ==
    IF Len(s) > 0 /\ Char(s, 1) \in Whitespace
    THEN TrimLeft(SubSeq(s, 2, Len(s))) ELSE s

RECURSIVE TrimRight(_)
TrimRight(s) ==
    IF Len(s) > 0 /\ Char(s, Len(s)) \in Whitespace
    THEN TrimRight(SubSeq(s, 1, Len(s) - 1)) ELSE s

\* String.prototype.trim
Trim(s) == TrimRight(TrimLeft(s))

(***************************************************************************)
(* JSON.parse(text): a parse result is [ok, value, pos], pos the index of  *)
(* the first character after the value                                     *)
(***************************************************************************)
Parsed(value, pos) == [ok |-> TRUE, value |-> value, pos |-> pos]
ParseError == [ok |-> FALSE, value |-> JUndef, pos |-> 0]

Digits == {"0", "1", "2", "3", "4", "5", "6", "7", "8", "9"}
DigitValue(c) == CHOOSE d \in 0..9 : ToString(d) = c

\* the first position from i on whose character is in stops (inside = TRUE)
\* or is not in stops (inside = FALSE); Len(s) + 1 if there is none
RECURSIVE Scan(_, _, _, _)
Scan(s, i, stops, inside) ==
    IF i > Len(s) THEN Len(s) + 1
    ELSE LET last == IF i + 15 < Len(s) THEN i + 15 ELSE Len(s)
             hits == {j \in i..last : (Char(s, j) \in stops) = inside}
         IN  IF hits = {} THEN Scan(s, last + 1, stops, inside)
             ELSE CHOOSE j \in hits : \A k \in hits : j <= k

SkipWhitespace(s, i) == Scan(s, i, Whitespace, FALSE)

\* the characters of a string literal from position i, after its opening quote
RECURSIVE ParseString(_, _, _)
ParseString(s, i, acc) ==
    LET j == Scan(s, i, {"\"", "\\", "\n", "\t", "\r"}, TRUE)
        plain == acc \o SubSeq(s, i, j - 1)
    IN  IF j > Len(s) THEN ParseError
        ELSE IF Char(s, j) = "\"" THEN Parsed(JStr(plain), j + 1)
        ELSE IF Char(s, j) = "\\"
             THEN IF j + 1 > Len(s) THEN ParseError
                  ELSE LET e == Char(s, j + 1)
                       IN  IF e \in {"\"", "\\", "/"} THEN ParseString(s, j + 2, plain \o e)
                           ELSE IF e = "n" THEN ParseString(s, j + 2, plain \o "\n")
                           ELSE IF e = "t" THEN ParseString(s, j + 2, plain \o "\t")
                           ELSE IF e = "r" THEN ParseString(s, j + 2, plain \o "\r")
                           ELSE ParseError
        ELSE ParseError

\* the digits of an integer literal from position i
RECURSIVE ParseDigits(_, _, _)
ParseDigits(s, i, acc) ==
    IF i <= Len(s) /\ Char(s, i) \in Digits
    THEN ParseDigits(s, i + 1, 10 * acc + DigitValue(Char(s, i)))
    ELSE Parsed(JNum(acc), i)

ParseNumber(s, i) ==
    LET negative == Char(s, i) = "-"
        first == IF negative THEN i + 1 ELSE i
    IN  IF first > Len(s) \/ Char(s, first) \notin Digits THEN ParseError
        ELSE LET digits == ParseDigits(s, first, 0)
             IN  IF negative THEN Parsed(JNum(0 - digits.value.n), digits.pos)
                 ELSE digits

Literal(s, i, word, value) ==
    IF i + Len(word) - 1 <= Len(s) /\ SubSeq(s, i, i + Len(word) - 1) = word
    THEN Parsed(value, i + Len(word))
    ELSE ParseError

RECURSIVE ParseValue(_, _)
RECURSIVE ParseItems(_, _, _)
RECURSIVE ParseMembers(_, _, _)

\* the items of an array from position i, after "[" or ","
ParseItems(s, i, acc) ==
    LET item == ParseValue(s, i)
    IN  IF ~item.ok THEN ParseError
        ELSE LET j == SkipWhitespace(s, item.pos)
                 items == Append(acc, item.value)
             IN  IF j > Len(s) THEN ParseError
                 ELSE IF Char(s, j) = "," THEN ParseItems(s, j + 1, items)
                 ELSE IF Char(s, j) = "]" THEN Parsed(JArr(items), j + 1)
                 ELSE ParseError

\* the members of an object from position i, after "{" or ","
ParseMembers(s, i, acc) ==
    LET k == SkipWhitespace(s, i)
    IN  IF k > Len(s) \/ Char(s, k) # "\"" THEN ParseError
        ELSE LET key == ParseString(s, k + 1, "")
             IN  IF ~key.ok THEN ParseError
                 ELSE LET colon == SkipWhitespace(s, key.pos)
                      IN  IF colon > Len(s) \/ Char(s, colon) # ":" THEN ParseError
                          ELSE LET member == ParseValue(s, colon + 1)
                               IN  IF ~member.ok THEN ParseError
                                   ELSE LET j == SkipWhitespace(s, member.pos)
                                            members == Append(acc, <<key.value.s, member.value>>)
                                        IN  IF j > Len(s) THEN ParseError
                                            ELSE IF Char(s, j) = ","
                                                 THEN ParseMembers(s, j + 1, members)
                                            ELSE IF Char(s, j) = "}"
                                                 THEN Parsed(JObj(members), j + 1)
                                            ELSE ParseError

ParseValue(s, i0) ==
    LET i == SkipWhitespace(s, i0)
    IN  IF i > Len(s) THEN ParseError
        ELSE LET c == Char(s, i)
             IN  CASE c = "{" ->
                        LET j == SkipWhitespace(s, i + 1)
                        IN  IF j <= Len(s) /\ Char(s, j) = "}" THEN Parsed(JObj(<<>>), j + 1)
                            ELSE ParseMembers(s, i + 1, <<>>)
                   [] c = "[" ->
                        LET j == SkipWhitespace(s, i + 1)
                        IN  IF j <= Len(s) /\ Char(s, j) = "]" THEN Parsed(JArr(<<>>), j + 1)
                            ELSE ParseItems(s, i + 1, <<>>)
                   [] c = "\"" -> ParseString(s, i + 1, "")
                   [] c = "t" -> Literal(s, i, "true", JBool(TRUE))
                   [] c = "f" -> Literal(s, i, "false", JBool(FALSE))
                   [] c = "n" -> Literal(s, i, "null", JNull)
                   [] c = "-" \/ c \in Digits -> ParseNumber(s, i)
                   [] OTHER -> ParseError

\* JSON.parse(text): the whole text is one value; ParseError where it throws
JsonParse(text) ==
    LET r == ParseValue(text, 1)
    IN  IF r.ok /\ SkipWhitespace(text, r.pos) > Len(text) THEN r ELSE ParseError

\* characters encodeURIComponent leaves alone, besides letters and digits
UriUnreserved == {"-", "_", ".", "!", "~", "*", "'", "(", ")"}
\* characters URLSearchParams leaves alone, besides letters and digits
FormUnreserved == {"*", "-", ".", "_"}

Alnum ==
    {"0", "1", "2", "3", "4", "5", "6", "7", "8", "9",
     "a", "b", "c", "d", "e", "f", "g", "h", "i", "j", "k", "l", "m",
     "n", "o", "p", "q", "r", "s", "t", "u", "v", "w", "x", "y", "z",
     "A", "B", "C", "D", "E", "F", "G", "H", "I", "J", "K", "L", "M",
     "N", "O", "P", "Q", "R", "S", "T", "U", "V", "W", "X", "Y", "Z"}

\* the percent escape of the ASCII characters the inputs of this model use
Percent(c) ==
    CASE c = " " -> "%20"
      [] c = "&" -> "%26"
      [] c = "=" -> "%3D"
      [] c = "/" -> "%2F"
      [] c = "?" -> "%3F"
      [] c = ":" -> "%3A"
      [] c = "+" -> "%2B"
      [] c = "!" -> "%21"
      [] c = "~" -> "%7E"
      [] c = "'" -> "%27"
      [] c = "(" -> "%28"
      [] c = ")" -> "%29"
      [] OTHER -> "%" \o c

RECURSIVE encodeURIComponent(_)
encodeURIComponent(s) ==
    IF s = "" THEN ""
    ELSE (IF Char(s, 1) \in Alnum \cup UriUnreserved
          THEN Char(s, 1) ELSE Percent(Char(s, 1)))
         \o encodeURIComponent(SubSeq(s, 2, Len(s)))

\* the application/x-www-form-urlencoded serializer of URLSearchParams
RECURSIVE FormEncode(_)
FormEncode(s) ==
    IF s = "" THEN ""
    ELSE (IF Char(s, 1) \in Alnum \cup FormUnreserved THEN Char(s, 1)
          ELSE IF Char(s, 1) = " " THEN "+"
          ELSE Percent(Char(s, 1)))
         \o FormEncode(SubSeq(s, 2, Len(s)))

\* URLSearchParams.toString() of the pairs appended so far
RECURSIVE SearchParams(_)
SearchParams(pairs) ==
    IF pairs = <<>> THEN ""
    ELSE FormEncode(Head(pairs)[1]) \o "=" \o FormEncode(Head(pairs)[2])
         \o (IF Len(pairs) > 1 THEN "&" ELSE "")
         \o SearchParams(Tail(pairs))

(***************************************************************************)
(* The Client: construction, headers, chain detection                      *)
(***************************************************************************)
HexLen == 40

HexDigits ==
    {"0", "1", "2", "3", "4", "5", "6", "7", "8", "9",
     "a", "b", "c", "d", "e", "f", "A", "B", "C", "D", "E", "F"}

\* BlockchainType
EVM == "evm"
SVM == "svm"

\* a detection that looks at the prefix only
detectChainByPrefix(token) ==
    IF Len(token) >= 2 /\ SubSeq(token, 1, 2) = "0x" THEN EVM ELSE SVM

\* /^0x[a-fA-F0-9]{40}$/.test(token) ? EVM : SVM
detectChain(token) ==
    IF /\ Len(token) = 2 + HexLen
       /\ SubSeq(token, 1, 2) = "0x"
       /\ \A i \in 3..Len(token) : Char(token, i) \in HexDigits
    THEN EVM ELSE SVM

\* COMMON_TOKENS of src/src/types.ts: chain, network key, address
COMMON_TOKENS ==
    <<[chain |-> SVM, network |-> "SVM",
       address |-> "EPjFWdd5AufqSSqeM2qN1xzybapC8G4wEGGkZwyTDt1v"],
      [chain |-> SVM, network |-> "SVM",
       address |-> "So11111111111111111111111111111111111111112"],
      [chain |-> EVM, network |-> "ETH",
       address |-> "0xA0b86991c6218b36c1d19D4a2e9Eb0cE3606eB48"],
      [chain |-> EVM, network |-> "ETH",
       address |-> "0xC02aaA39b223FE8D0A0e5C4F27eAD9083C756Cc2"],
      [chain |-> EVM, network |-> "BASE",
       address |-> "0x833589fCD6eDb6E08f4c7C32D4f71b54bdA02913"],
      [chain |-> EVM, network |-> "BASE",
       address |-> "0x4200000000000000000000000000000000000006"]>>

\* String.prototype.toLowerCase on the characters of an address
LowerOf(c) ==
    CASE c = "A" -> "a" [] c = "B" -> "b" [] c = "C" -> "c" [] c = "D" -> "d"
      [] c = "E" -> "e" [] c = "F" -> "f" [] c = "X" -> "x" [] OTHER -> c

RECURSIVE toLowerCase(_)
toLowerCase(s) ==
    IF s = "" THEN "" ELSE LowerOf(Char(s, 1)) \o toLowerCase(SubSeq(s, 2, Len(s)))

NoTokenInfo == [found |-> FALSE, chain |-> "", specificChain |-> ""]

\* findTokenChainInfo(token): SVM entries compared exactly, EVM entries
\* without regard to case; the first entry that matches, null if none
findTokenChainInfo(token) ==
    LET hits == {i \in 1..Len(COMMON_TOKENS) :
                    IF COMMON_TOKENS[i].chain = SVM
                    THEN COMMON_TOKENS[i].address = token
                    ELSE toLowerCase(COMMON_TOKENS[i].address) = toLowerCase(token)}
    IN  IF hits = {} THEN NoTokenInfo
        ELSE LET i == CHOOSE j \in hits : \A k \in hits : j <= k
             IN  [found |-> TRUE,
                  chain |-> COMMON_TOKENS[i].chain,
                  specificChain |-> IF COMMON_TOKENS[i].chain = SVM THEN "svm"
                                    ELSE COMMON_TOKENS[i].network]

\* a constructor that stores the base URL as it was given
ConstructorVerbatim(apiKey, envKey, baseUrl, debug) ==
    LET providedKey == IF apiKey # "" THEN apiKey ELSE envKey
        key == IF providedKey # "" THEN Trim(providedKey) ELSE ""
    IN  [apiKey |-> key, baseUrl |-> baseUrl, debug |-> debug,
         warned |-> key = "", thrown |-> FALSE]

\* a constructor that refuses to build a Client without a credential
ConstructorStrict(apiKey, envKey, baseUrl, debug) ==
    LET providedKey == IF apiKey # "" THEN apiKey ELSE envKey
    IN  [apiKey |-> Trim(providedKey),
         baseUrl |-> IF EndsWith(baseUrl, "/")
                     THEN SubSeq(baseUrl, 1, Len(baseUrl) - 1) ELSE baseUrl,
         debug |-> debug,
         warned |-> FALSE,
         thrown |-> Trim(providedKey) = ""]

\* new TradingSimulatorClient(apiKey, baseUrl, debug); apiKey = "" stands
\* for an absent key (undefined and "" are both falsy), envKey for
\* config.TRADING_SIM_API_KEY.  warned: the constructor logged that no key
\* was provided; thrown: the constructor threw (it has no throw statement)
Constructor(apiKey, envKey, baseUrl, debug) ==
    LET providedKey == IF apiKey # "" THEN apiKey ELSE envKey
        key == IF providedKey # "" THEN Trim(providedKey) ELSE ""
    IN  [apiKey |-> key,
         baseUrl |-> IF EndsWith(baseUrl, "/")
                     THEN SubSeq(baseUrl, 1, Len(baseUrl) - 1) ELSE baseUrl,
         debug |-> debug,
         warned |-> key = "",
         thrown |-> FALSE]

\* headers that leave the credential out
generateHeadersAnonymous(cl) ==
    [Authorization |-> "",
     ContentType |-> "application/json",
     UserAgent |-> "TradingSimMCP/1.0"]

generateHeaders(cl) ==
    [Authorization |-> "Bearer " \o cl.apiKey,
     ContentType |-> "application/json",
     UserAgent |-> "TradingSimMCP/1.0"]

\* the fetch(url, options) call that request(method, path, body) makes;
\* body is a JSON value, JNull for the default null
FetchCall(cl, method, path, body) ==
    [method |-> method,
     url |-> cl.baseUrl \o path,
     headers |-> generateHeaders(cl),
     hasBody |-> JTruthy(body),
     body |-> IF JTruthy(body) THEN Stringify(body) ELSE ""]

(***************************************************************************)
(* Endpoint methods of src/src/api-client.ts: the request each one makes   *)
(***************************************************************************)
\* a parameter object of a Client method: the fields the Dispatcher set
Has(params, k) == k \in DOMAIN params
Set(params, k) == Has(params, k) /\ Truthy(params[k])
Pair(params, k) == IF Set(params, k) THEN <<<<k, ToStr(params[k])>>>> ELSE <<>>
Amp(params, k) == IF Set(params, k) THEN "&" \o k \o "=" \o ToStr(params[k]) ELSE ""

getBalances(cl) == FetchCall(cl, "GET", "/api/account/balances", JNull)

getPortfolio(cl) == FetchCall(cl, "GET", "/api/account/portfolio", JNull)

getTrades(cl, options) ==
    LET pairs == Pair(options, "limit") \o Pair(options, "offset")
                 \o Pair(options, "token") \o Pair(options, "chain")
    IN  FetchCall(cl, "GET", "/api/account/trades?" \o SearchParams(pairs), JNull)

PriceQuery(params) ==
    "?token=" \o encodeURIComponent(ToStr(params["token"]))
    \o Amp(params, "chain") \o Amp(params, "specificChain")

getPrice(cl, params) == FetchCall(cl, "GET", "/api/price" \o PriceQuery(params), JNull)

getTokenInfo(cl, params) ==
    FetchCall(cl, "GET", "/api/price/token-info" \o PriceQuery(params), JNull)

getPriceHistory(cl, params) ==
    LET pairs == <<<<"token", ToStr(params["token"])>>>>
                 \o Pair(params, "startTime") \o Pair(params, "endTime")
                 \o Pair(params, "interval") \o Pair(params, "chain")
                 \o Pair(params, "specificChain")
    IN  FetchCall(cl, "GET", "/api/price/history?" \o SearchParams(pairs), JNull)

Member(params, k) == IF Set(params, k) THEN <<<<k, ArgJson(params[k])>>>> ELSE <<>>

\* the payload of executeTrade in the order its members are created
TradePayload(params) ==
    LET given(k) == Set(params, k)
        chainOf(k, tok) ==
            IF given(k) THEN ArgJson(params[k])
            ELSE JStr(detectChain(ToStr(params[tok])))
        early == <<<<"fromToken", ArgJson(params["fromToken"])>>,
                   <<"toToken", ArgJson(params["toToken"])>>,
                   <<"amount", ArgJson(params["amount"])>>>>
                 \o Member(params, "slippageTolerance")
                 \o Member(params, "fromChain") \o Member(params, "toChain")
                 \o Member(params, "fromSpecificChain")
                 \o Member(params, "toSpecificChain")
        late == (IF given("fromChain") THEN <<>>
                 ELSE <<<<"fromChain", chainOf("fromChain", "fromToken")>>>>)
                \o (IF given("toChain") THEN <<>>
                    ELSE <<<<"toChain", chainOf("toChain", "toToken")>>>>)
    IN  JObj(early \o late)

executeTrade(cl, params) ==
    FetchCall(cl, "POST", "/api/trade/execute", TradePayload(params))

getQuote(cl, params) ==
    FetchCall(cl, "GET",
              "/api/trade/quote?fromToken=" \o encodeURIComponent(ToStr(params["fromToken"]))
              \o "&toToken=" \o encodeURIComponent(ToStr(params["toToken"]))
              \o "&amount=" \o encodeURIComponent(ToStr(params["amount"])),
              JNull)

getCompetitionStatus(cl) == FetchCall(cl, "GET", "/api/competition/status", JNull)

getLeaderboard(cl, params) ==
    FetchCall(cl, "GET",
              IF Set(params, "competitionId")
              THEN "/api/competition/leaderboard?competitionId="
                   \o ToStr(params["competitionId"])
              ELSE "/api/competition/leaderboard",
              JNull)

getCompetitionRules(cl) == FetchCall(cl, "GET", "/api/competition/rules", JNull)

(***************************************************************************)
(* Endpoint methods of the api-client.ts of the "profile" build            *)
(* (src/unnamed/part_005), where they differ                               *)
(***************************************************************************)
Defined(params, k) == IF Has(params, k) THEN <<<<k, ToStr(params[k])>>>> ELSE <<>>

getProfile(cl) == FetchCall(cl, "GET", "/api/account/profile", JNull)

updateProfile(cl, params) ==
    FetchCall(cl, "PUT", "/api/account/profile",
              JObj((IF Has(params, "contactPerson")
                    THEN <<<<"contactPerson", ArgJson(params["contactPerson"])>>>>
                    ELSE <<>>)
                   \o (IF Has(params, "metadata")
                       THEN <<<<"metadata", ArgJson(params["metadata"])>>>>
                       ELSE <<>>)))

getTradeHistory(cl, options) ==
    LET pairs == Defined(options, "limit") \o Defined(options, "offset")
                 \o Pair(options, "token") \o Pair(options, "chain")
        queryString == SearchParams(pairs)
    IN  FetchCall(cl, "GET",
                  "/api/account/trades"
                  \o (IF queryString # "" THEN "?" \o queryString ELSE ""),
                  JNull)

PriceParams(params) ==
    SearchParams(<<<<"token", ToStr(params["token"])>>>>
                 \o Pair(params, "chain") \o Pair(params, "specificChain"))

getPrice_p005(cl, params) ==
    FetchCall(cl, "GET", "/api/price?" \o PriceParams(params), JNull)

getTokenInfo_p005(cl, params) ==
    FetchCall(cl, "GET", "/api/price/token-info?" \o PriceParams(params), JNull)

\* the TradeParams object, serialized member by member as the Dispatcher set it
TradeParamsJson(params) ==
    LET m(k) == IF Has(params, k) THEN <<<<k, ArgJson(params[k])>>>> ELSE <<>>
    IN  JObj(m("fromToken") \o m("toToken") \o m("amount") \o m("reason")
             \o m("slippageTolerance") \o m("fromChain") \o m("toChain")
             \o m("fromSpecificChain") \o m("toSpecificChain"))

executeTrade_p005(cl, params) ==
    FetchCall(cl, "POST", "/api/trade/execute", TradeParamsJson(params))

getQuote_p005(cl, params) ==
    FetchCall(cl, "GET",
              "/api/trade/quote?"
              \o SearchParams(<<<<"fromToken", ToStr(params["fromToken"])>>,
                                <<"toToken", ToStr(params["toToken"])>>,
                                <<"amount", ToStr(params["amount"])>>>>
                              \o Pair(params, "fromChain") \o Pair(params, "toChain")
                              \o Pair(params, "fromSpecificChain")
                              \o Pair(params, "toSpecificChain")),
              JNull)

getLeaderboard_p005(cl, params) ==
    FetchCall(cl, "GET",
              "/api/competition/leaderboard"
              \o (IF Set(params, "competitionId")
                  THEN "?competitionId="
                       \o encodeURIComponent(ToStr(params["competitionId"]))
                  ELSE ""),
              JNull)

getRules(cl) == FetchCall(cl, "GET", "/api/competition/rules", JNull)

getHealthStatus(cl) == FetchCall(cl, "GET", "/api/health", JNull)

getDetailedHealthStatus(cl) == FetchCall(cl, "GET", "/api/health/detailed", JNull)

(***************************************************************************)
(* request(): what the Client makes of the HTTP outcome                    *)
(***************************************************************************)
\* a thrown value: every failure of this code is an Error instance
Error(message) == [name |-> "Error", message |-> message]

\* the outcome of a Client call
Resolved(value) == [kind |-> "resolved", value |-> value]
Rejected(error) == [kind |-> "rejected", error |-> error]
Pending == [kind |-> "pending"]

\* response.ok
Ok(status) == status \in 200..299

\* a response body: its text, whether JSON.parse accepts it, and the value
\* JSON.parse returns
Body(text, value) == [text |-> text, parses |-> TRUE, value |-> value]
NotJson(text) == [text |-> text, parses |-> FALSE, value |-> JUndef]

\* the message of the SyntaxError JSON.parse throws
SyntaxError(text) ==
    IF Trim(text) = "" THEN "SyntaxError: Unexpected end of JSON input"
    ELSE "SyntaxError: Unexpected token in JSON at position 0"

\* the chain with its first two links exchanged
ErrorFieldTopFirst(errorData, errorMessage) ==
    LET error == Get(errorData, "error")
        nested == IF Nullish(error) THEN JUndef ELSE Get(error, "message")
        top == Get(errorData, "message")
    IN  IF JTruthy(top) THEN JString(top)
        ELSE IF JTruthy(nested) THEN JString(nested)
        ELSE errorMessage

\* errorData.error?.message || errorData.message || errorMessage
ErrorField(errorData, errorMessage) ==
    LET error == Get(errorData, "error")
        nested == IF Nullish(error) THEN JUndef ELSE Get(error, "message")
        top == Get(errorData, "message")
    IN  IF JTruthy(nested) THEN JString(nested)
        ELSE IF JTruthy(top) THEN JString(top)
        ELSE errorMessage

\* an errorMessage that says which key the request was made with
ErrorMessageWithKey(status, body) ==
    "API request failed with status " \o ToString(status)
    \o " (key " \o client.apiKey \o ")"

\* the errorMessage of a response that is not ok
ErrorMessage(status, body) ==
    LET errorMessage == "API request failed with status " \o ToString(status)
    IN  IF Trim(body.text) = "" THEN errorMessage
        ELSE IF ~body.parses THEN body.text
        ELSE IF Nullish(body.value) THEN body.text  \* TypeError inside the try
        ELSE ErrorField(body.value, errorMessage)

ParseFailure(body) ==
    "Failed to parse successful response: " \o SyntaxError(body.text)

\* a request() that takes an unreadable success body for an empty object
RequestSettledLenient(status, body) ==
    IF ~Ok(status) THEN Rejected(Error(ErrorMessage(status, body)))
    ELSE IF body.parses THEN Resolved(body.value)
    ELSE Resolved(JObj(<<>>))

\* src/src/api-client.ts: request() once the body text has arrived
RequestSettled(status, body) ==
    IF ~Ok(status) THEN Rejected(Error(ErrorMessage(status, body)))
    ELSE IF body.parses THEN Resolved(body.value)
    ELSE Rejected(Error(ParseFailure(body)))

\* src/src/api-client.ts: fetch() rejected with networkError
RequestNetworkError(networkError) ==
    Rejected(Error("Network error occurred while making API request."))

\* src/src/api-client.ts: response.text() rejected; it is awaited outside
\* every try block, so the raw error is the rejection
RequestReadError(readError) == Rejected(readError)

\* an ErrorResponse object of the "profile" build
ErrorResponse(error, status) ==
    JObj(<<<<"success", JBool(FALSE)>>, <<"error", JStr(error)>>,
           <<"status", JNum(status)>>>>)

\* part_005: request() once the body text has arrived
RequestSettled_p005(status, body) ==
    IF ~Ok(status) THEN Resolved(ErrorResponse(ErrorMessage(status, body), status))
    ELSE IF body.parses THEN Resolved(body.value)
    ELSE Resolved(ErrorResponse(ParseFailure(body), 500))

\* part_005: handleApiError(error, operation) for an Error without status
handleApiError(error) == ErrorResponse(error.message, 500)

\* part_005: fetch() or response.text() rejected inside the try
RequestCaught_p005(error) == Resolved(handleApiError(error))

\* s.includes(sub)
Contains(s, sub) ==
    \E i \in 1..(Len(s) - Len(sub) + 1) : SubSeq(s, i, i + Len(sub) - 1) = sub

(***************************************************************************)
(* The signed Client of src/unnamed/part_002                               *)
(***************************************************************************)
\* new TradingSimulatorClient(apiKey, apiSecret, baseUrl, testMode)
Constructor_p002(apiKey, apiSecret, baseUrl, testMode) ==
    [apiKey |-> Trim(apiKey),
     apiSecret |-> Trim(apiSecret),
     baseUrl |-> IF EndsWith(baseUrl, "/")
                 THEN SubSeq(baseUrl, 1, Len(baseUrl) - 1) ELSE baseUrl,
     testMode |-> testMode,
     thrown |-> FALSE]

\* path.split('?')[0]
RECURSIVE BeforeQuery(_)
BeforeQuery(path) ==
    IF path = "" \/ Char(path, 1) = "?" THEN ""
    ELSE Char(path, 1) \o BeforeQuery(SubSeq(path, 2, Len(path)))

\* new Date(...).toISOString(): the clock is not modelled, the time stamp
\* only says which clock reading was taken
Timestamp(testMode) == IF testMode THEN "<now + 2 years>" ELSE "<now>"

\* crypto.createHmac('sha256', secret).update(data).digest('hex'): the
\* digest stands for the key and the data it was made of
Hmac(secret, data) == [key |-> secret, data |-> data]

generateHeaders_p002(cl, method, path, body) ==
    LET bodyString == IF body = "" THEN "{}" ELSE body
    IN  [XApiKey |-> cl.apiKey,
         XTimestamp |-> Timestamp(cl.testMode),
         XSignature |-> Hmac(cl.apiSecret,
                             method \o BeforeQuery(path)
                             \o Timestamp(cl.testMode) \o bodyString),
         ContentType |-> "application/json",
         UserAgent |-> "TradingSimMCP/1.0"]

\* the fetch(url, options) call of part_002's request(method, path, body)
FetchCall_p002(cl, method, path, body) ==
    LET bodyString == IF body = JNull THEN "{}" ELSE Stringify(body)
    IN  [method |-> method,
         url |-> cl.baseUrl \o path,
         headers |-> generateHeaders_p002(cl, method, path, bodyString),
         hasBody |-> body # JNull,
         body |-> IF body # JNull THEN bodyString ELSE ""]

\* String(error) of an Error: its name and its message
ErrorString(error) == error.name \o ": " \o error.message

\* part_002: fetch() rejected; the outer catch rethrows
RequestNetworkError_p002(error) == Rejected(error)

\* part_002: response.text() rejected
RequestReadError_p002(error) ==
    Rejected(Error("Failed to read response: " \o ErrorString(error)))

\* part_002: the body was read; it is parsed before the status is looked at
RequestSettled_p002(status, body) ==
    IF ~body.parses
    THEN Rejected(Error("Failed to read response: Error: Failed to parse response: "
                        \o SyntaxError(body.text)))
    ELSE IF Ok(status) THEN Resolved(body.value)
    ELSE IF body.value = JNull
    THEN Rejected([name |-> "TypeError",
                   message |-> "Cannot read properties of null (reading 'error')"])
    ELSE IF JTruthy(Get(body.value, "error"))
    THEN Rejected(Error(JString(Get(body.value, "error"))))
    ELSE IF JTruthy(Get(body.value, "message"))
    THEN Rejected(Error(JString(Get(body.value, "message"))))
    ELSE Rejected(Error("API request failed with status " \o ToString(status)))

getBalances_p002(cl) == FetchCall_p002(cl, "GET", "/api/account/balances", JNull)

\* payload.k = v: the member is replaced where it is, or added at the end
Assign(members, k, v) ==
    IF \E i \in 1..Len(members) : members[i][1] = k
    THEN [i \in 1..Len(members) |->
             IF members[i][1] = k THEN <<k, v>> ELSE members[i]]
    ELSE Append(members, <<k, v>>)

\* the members executeTrade copies from params: the three required ones
\* and every optional one that is truthy
ExplicitMembers(params) ==
    <<<<"fromToken", ArgJson(params["fromToken"])>>,
      <<"toToken", ArgJson(params["toToken"])>>,
      <<"amount", ArgJson(params["amount"])>>>>
    \o Member(params, "price") \o Member(params, "slippageTolerance")
    \o Member(params, "fromChain") \o Member(params, "toChain")
    \o Member(params, "fromSpecificChain") \o Member(params, "toSpecificChain")

\* the table's chain and specific chain assigned for one side of the trade
AssignInfo(members, side, info) ==
    Assign(Assign(members, side \o "Chain", JStr(info.chain)),
           side \o "SpecificChain", JStr(info.specificChain))

\* the chain of one side from the pattern, if the payload has none yet
AssignDetected(members, side, token) ==
    IF JTruthy(Get(JObj(members), side \o "Chain")) THEN members
    ELSE Assign(members, side \o "Chain", JStr(detectChain(token)))

\* the payload of part_002's first request
TradePayload_p002(params) ==
    LET fromToken == ToStr(params["fromToken"])
        toToken == ToStr(params["toToken"])
        fromTokenInfo == findTokenChainInfo(fromToken)
        toTokenInfo == findTokenChainInfo(toToken)
        hasExplicitFromChain ==
            Set(params, "fromChain") \/ Set(params, "fromSpecificChain")
        hasExplicitToChain ==
            Set(params, "toChain") \/ Set(params, "toSpecificChain")
        explicit == ExplicitMembers(params)
        withFrom == IF fromTokenInfo.found /\ ~hasExplicitFromChain
                    THEN AssignInfo(explicit, "from", fromTokenInfo) ELSE explicit
        withTo == IF toTokenInfo.found /\ ~hasExplicitToChain
                  THEN AssignInfo(withFrom, "to", toTokenInfo) ELSE withFrom
        sameChain == /\ fromTokenInfo.found /\ toTokenInfo.found
                     /\ fromTokenInfo.chain = toTokenInfo.chain
                     /\ fromTokenInfo.specificChain = toTokenInfo.specificChain
    IN  JObj(IF sameChain THEN withTo
             ELSE AssignDetected(AssignDetected(withTo, "from", fromToken),
                                 "to", toToken))

executeTrade_p002(cl, params) ==
    FetchCall_p002(cl, "POST", "/api/trade/execute", TradePayload_p002(params))

\* a catch that retries after every failure
RetriesAlways(params, error) == TRUE

\* the catch of executeTrade retries when the first request failed with a
\* message about cross-chain trading and the table knows one of the tokens
Retries(params, error) ==
    /\ Contains(error.message, "cross-chain")
    /\ \/ findTokenChainInfo(ToStr(params["fromToken"])).found
       \/ findTokenChainInfo(ToStr(params["toToken"])).found

\* the second request: only what the caller gave
executeTradeFallback_p002(cl, params) ==
    FetchCall_p002(cl, "POST", "/api/trade/execute", JObj(ExplicitMembers(params)))

(***************************************************************************)
(* The Dispatcher: the CallToolRequestSchema handler                       *)
(***************************************************************************)
\* TRADING_SIM_TOOLS of src/src/index.ts, by name
TRADING_SIM_TOOLS ==
    {"get_balances", "get_portfolio", "get_trades", "get_price",
     "get_token_info", "get_price_history", "execute_trade", "get_quote",
     "get_competition_status", "get_leaderboard"}

\* TRADING_SIM_TOOLS of the "profile" build, by name
TRADING_SIM_TOOLS_backlog ==
    TRADING_SIM_TOOLS \cup
    {"get_profile", "update_profile", "get_competition_rules", "get_health",
     "get_detailed_health"}

TextBlock(text) == <<[type |-> "text", text |-> text]>>

\* { content: [...], isError: false } around a resolved Client call
SuccessEnvelope(response) ==
    [content |-> TextBlock(StringifyPretty(response)), isError |-> FALSE]

\* { content: [...], isError: true }
ErrorEnvelope(text) == [content |-> TextBlock(text), isError |-> TRUE]

\* { content: [...] }: the get_competition_rules case of the "profile" build
BareEnvelope(response) == [content |-> TextBlock(StringifyPretty(response))]

\* how far the handler gets before it returns, throws or awaits the Client
Return(env) == [kind |-> "return", env |-> env]
Throw(error) == [kind |-> "throw", error |-> error]
Await(fetch) == [kind |-> "await", fetch |-> fetch]
\* a Client call used directly has settled: nothing more runs
Settle == [kind |-> "settle"]

\* the fields of the bag that the Dispatcher copies into a parameter object
Restrict(bag, keys) == [k \in (DOMAIN bag) \cap keys |-> bag[k]]

\* !args || typeof args !== "object" || !("k" in args) for a required k
Invalid(a, required) == ~a.present \/ \E k \in required : ~In(k, a)

\* a validation failure that answers as if the call had succeeded
InvalidArgumentsIgnored(name) == Return(SuccessEnvelope(JObj(<<>>)))

\* throw new Error("Invalid arguments for <tool>")
InvalidArguments(name) == Throw(Error("Invalid arguments for " \o name))

\* a default case whose message leaves the tool out
UnknownToolUnnamed(name) == Return(ErrorEnvelope("Unknown tool"))

\* the default case of the switch
UnknownTool(name) == Return(ErrorEnvelope("Unknown tool: " \o name))

\* a handler without its outer catch: what is thrown leaves the handler
Uncaught(step) == step

\* the outer catch of the handler: an error thrown inside the try block
\* becomes an error envelope
Caught(step) ==
    IF step.kind = "throw"
    THEN Return(ErrorEnvelope("Error: " \o step.error.message))
    ELSE step

\* a list handler that answers every request with an empty list
ListToolsNothing(aborted) == {}

\* the ListToolsRequestSchema handler of src/src/index.ts: the names of the
\* tools it returns
ListToolsHandler(aborted) == IF aborted THEN {} ELSE TRADING_SIM_TOOLS

\* the switch of src/src/index.ts up to the Client call
ToolCase(cl, name, a) ==
    CASE name = "get_balances" -> Await(getBalances(cl))
      [] name = "get_portfolio" -> Await(getPortfolio(cl))
      [] name = "get_trades" ->
            IF Invalid(a, {}) THEN InvalidArguments(name)
            ELSE Await(getTrades(cl, Restrict(a.bag, {"limit", "offset", "token", "chain"})))
      [] name = "get_price" ->
            IF Invalid(a, {"token"}) THEN InvalidArguments(name)
            ELSE Await(getPrice(cl, Restrict(a.bag, {"token", "chain", "specificChain"})))
      [] name = "get_token_info" ->
            IF Invalid(a, {"token"}) THEN InvalidArguments(name)
            ELSE Await(getTokenInfo(cl, Restrict(a.bag, {"token", "chain", "specificChain"})))
      [] name = "get_price_history" ->
            IF Invalid(a, {"token"}) THEN InvalidArguments(name)
            ELSE Await(getPriceHistory(cl,
                        Restrict(a.bag, {"token", "startTime", "endTime", "interval",
                                         "chain", "specificChain"})))
      [] name = "execute_trade" ->
            IF Invalid(a, {"fromToken", "toToken", "amount"}) THEN InvalidArguments(name)
            ELSE LET params == Restrict(a.bag, {"fromToken", "toToken", "amount",
                                                "slippageTolerance"})
                     chains ==
                        [k \in {"fromChain", "toChain"} |->
                            Str(detectChain(ToStr(
                                IF k = "fromChain" THEN params["fromToken"]
                                ELSE params["toToken"])))]
                 IN  Await(executeTrade(cl, chains @@ params))
      [] name = "get_quote" ->
            IF Invalid(a, {"fromToken", "toToken", "amount"}) THEN InvalidArguments(name)
            ELSE Await(getQuote(cl, Restrict(a.bag, {"fromToken", "toToken", "amount"})))
      [] name = "get_competition_status" -> Await(getCompetitionStatus(cl))
      [] name = "get_leaderboard" -> Await(getLeaderboard(cl, <<>>))
      [] OTHER -> UnknownTool(name)

\* src/src/index.ts: the handler from its entry to its first await
CallTool(cl, name, a, aborted) ==
    IF aborted THEN Return(ErrorEnvelope("Request aborted"))
    ELSE Caught(ToolCase(cl, name, a))

\* a catch that puts the bare message into the envelope
CallToolSettledBare(name, outcome) ==
    IF outcome.kind = "resolved" THEN Return(SuccessEnvelope(outcome.value))
    ELSE Return(ErrorEnvelope(outcome.error.message))

\* src/src/index.ts: the handler once the Client call has settled; the
\* inner catch of each case logs the error and throws it again
CallToolSettled(name, outcome) ==
    IF outcome.kind = "resolved" THEN Return(SuccessEnvelope(outcome.value))
    ELSE Caught(Throw(outcome.error))

\* the switch of the "profile" build up to the Client call
ToolCase_backlog(cl, name, a) ==
    CASE name = "get_profile" -> Await(getProfile(cl))
      [] name = "update_profile" ->
            IF Invalid(a, {}) THEN InvalidArguments(name)
            ELSE Await(updateProfile(cl, Restrict(a.bag, {"contactPerson", "metadata"})))
      [] name = "get_balances" -> Await(getBalances(cl))
      [] name = "get_portfolio" -> Await(getPortfolio(cl))
      [] name = "get_trades" ->
            IF Invalid(a, {}) THEN InvalidArguments(name)
            ELSE Await(getTradeHistory(cl,
                        Restrict(a.bag, {"limit", "offset", "token", "chain"})))
      [] name = "get_price" ->
            IF Invalid(a, {"token"}) THEN InvalidArguments(name)
            ELSE Await(getPrice_p005(cl, Restrict(a.bag, {"token", "chain", "specificChain"})))
      [] name = "get_token_info" ->
            IF Invalid(a, {"token"}) THEN InvalidArguments(name)
            ELSE Await(getTokenInfo_p005(cl,
                        Restrict(a.bag, {"token", "chain", "specificChain"})))
      [] name = "get_price_history" ->
            IF Invalid(a, {"token"}) THEN InvalidArguments(name)
            ELSE Await(getPriceHistory(cl,
                        Restrict(a.bag, {"token", "startTime", "endTime", "interval",
                                         "chain", "specificChain"})))
      [] name = "execute_trade" ->
            IF Invalid(a, {"fromToken", "toToken", "amount", "reason"})
            THEN InvalidArguments(name)
            ELSE Await(executeTrade_p005(cl,
                        Restrict(a.bag, {"fromToken", "toToken", "amount", "reason",
                                         "slippageTolerance", "fromChain", "toChain",
                                         "fromSpecificChain", "toSpecificChain"})))
      [] name = "get_quote" ->
            IF Invalid(a, {"fromToken", "toToken", "amount"}) THEN InvalidArguments(name)
            ELSE Await(getQuote_p005(cl,
                        Restrict(a.bag, {"fromToken", "toToken", "amount", "fromChain",
                                         "toChain", "fromSpecificChain",
                                         "toSpecificChain"})))
      [] name = "get_competition_status" -> Await(getCompetitionStatus(cl))
      [] name = "get_leaderboard" ->
            Await(getLeaderboard_p005(cl, Restrict(a.bag, {"competitionId"})))
      [] name = "get_competition_rules" -> Await(getRules(cl))
      [] name = "get_health" -> Await(getHealthStatus(cl))
      [] name = "get_detailed_health" -> Await(getDetailedHealthStatus(cl))
      [] OTHER -> UnknownTool(name)

\* "profile" build: the handler from its entry to its first await; it takes
\* no abort signal, and an absent argument bag defaults to {}
CallTool_backlog(cl, name, a) ==
    Caught(ToolCase_backlog(cl, name, IF a.present THEN a ELSE Args(<<>>)))

\* "profile" build: the handler once the Client call has settled
CallToolSettled_backlog(name, outcome) ==
    IF outcome.kind = "resolved"
    THEN Return(IF name = "get_competition_rules"
                THEN BareEnvelope(outcome.value)
                ELSE SuccessEnvelope(outcome.value))
    ELSE Caught(Throw(outcome.error))

(***************************************************************************)
(* Inputs: what the host and the remote API may present                    *)
(***************************************************************************)
EvmToken == "0xC02aaA39b223FE8D0A0e5C4F27eAD9083C756Cc2"
SvmToken == "So11111111111111111111111111111111111111112"

\* tool names a host may ask for: every catalog name and one in no catalog
RequestedNames == TRADING_SIM_TOOLS_backlog \cup {"get_weather"}

TradeBag ==
    "fromToken" :> Str(EvmToken) @@ "toToken" :> Str(SvmToken)
    @@ "amount" :> Str("1.5")

ArgumentBags ==
    {NoArgs,
     Args(<<>>),
     Args("tokenSymbol" :> Str("SOL") @@ "vsTokenSymbol" :> Str("USDC")),
     Args("token" :> Str(EvmToken)),
     Args("token" :> Str(SvmToken) @@ "chain" :> Str("svm")
          @@ "specificChain" :> Str("svm")),
     Args("token" :> Str(EvmToken) @@ "chain" :> Str("solana")),
     Args("token" :> Str(EvmToken) @@ "specificChain" :> Str("mainnet")),
     Args("token" :> Str(SvmToken) @@ "interval" :> Str("1h")
          @@ "startTime" :> Str("2024-01-01T00:00:00Z")),
     Args("token" :> Str(SvmToken) @@ "interval" :> Str("2h")),
     Args("limit" :> Num(10) @@ "offset" :> Num(0)),
     Args("chain" :> Str("evm") @@ "token" :> Str("")),
     Args(TradeBag),
     Args(TradeBag @@ "reason" :> Str("rebalance")
          @@ "slippageTolerance" :> Str("0.5")),
     Args(TradeBag @@ "reason" :> Str("hedge") @@ "fromChain" :> Str("svm")
          @@ "toChain" :> Str("evm")),
     Args("fromToken" :> Str(EvmToken) @@ "toToken" :> Str(SvmToken)),
     Args("competitionId" :> Str("comp-1"))}

\* HTTP status codes the remote API answers with
Statuses == {200, 401, 500}

BalancesJson ==
    JObj(<<<<"success", JBool(TRUE)>>,
           <<"teamId", JStr("team-1")>>,
           <<"balances",
             JArr(<<JObj(<<<<"token", JStr(SvmToken)>>, <<"amount", JNum(100)>>,
                            <<"chain", JStr("svm")>>, <<"specificChain", JNull>>>>)>>)>>>>)

\* a body whose strings need escapes, with empty and nested containers
QuotedJson ==
    JObj(<<<<"note", JStr("say \"hi\"\non C:\\")>>,
           <<"pnl", JNum(0 - 5)>>,
           <<"flags", JArr(<<JBool(TRUE), JBool(FALSE), JNull, JArr(<<>>)>>)>>,
           <<"meta", JObj(<<>>)>>>>)

\* the texts response.text() may resolve with
BodyTexts ==
    {"",
     "  \n",
     "not json",
     "null",
     "{}",
     "{\"error\":{\"message\":\"boom\"}}",
     "{\"message\":\"top\"}",
     "{\"error\":{\"message\":\"boom\"},\"message\":\"top\"}",
     "{\"error\":{\"message\":\"\"},\"message\":\"top\"}",
     "{\"success\":false,\"error\":\"Unauthorized\",\"status\":401}",
     "{\"success\":false,\"error\":\"cross-chain trading is disabled\"}",
     Stringify(BalancesJson),
     Stringify(QuotedJson)}

\* a response body: the text with what JSON.parse makes of it
Response(text) ==
    LET r == JsonParse(text)
    IN  IF r.ok THEN Body(text, r.value) ELSE NotJson(text)

Bodies == {Response(text) : text \in BodyTexts}

\* what fetch() or response.text() may reject with
TransportErrors ==
    {[name |-> "TypeError", message |-> "fetch failed: connect ECONNREFUSED 10.0.0.5:3000"],
     [name |-> "AbortError", message |-> "The operation was aborted"]}

\* constructor arguments of the shared tradingClient
ApiKeys == {"", "  sk_test_4f9a  "}
BaseUrls == {"http://localhost:3000", "http://localhost:3000/"}

\* the Client used directly, as its unit tests use it ----------------------
LowerToken == "0x4200000000000000000000000000000000000006"
\* WETH of the token table written in capitals, prefix included
UpperToken == "0XC02AAA39B223FE8D0A0E5C4F27EAD9083C756CC2"
UnlistedToken == "0x1234567890123456789012345678901234567890"
UsdcSvm == "EPjFWdd5AufqSSqeM2qN1xzybapC8G4wEGGkZwyTDt1v"

\* addresses handed to detectChain: well-formed ones, and ones that miss
\* the pattern by a single feature (prefix case, length, one character,
\* surrounding white space)
DetectTokens ==
    {EvmToken, LowerToken, UnlistedToken, UpperToken, SvmToken, UsdcSvm,
     "", "0x", "0x123",
     "0x12345678901234567890123456789012345678901",
     "0x123456789012345678901234567890123456789",
     "0xG2aaA39b223FE8D0A0e5C4F27eAD9083C756Cc2",
     "1xC02aaA39b223FE8D0A0e5C4F27eAD9083C756Cc2",
     " 0xC02aaA39b223FE8D0A0e5C4F27eAD9083C756Cc2",
     "0xC02aaA39b223FE8D0A0e5C4F27eAD9083C756Cc2\n"}

Trade(from, to) ==
    "fromToken" :> Str(from) @@ "toToken" :> Str(to) @@ "amount" :> Str("1.5")

\* method calls a program makes on a Client it holds
ClientCalls ==
    {[name |-> "detectChain", args |-> Args("token" :> Str(t))] : t \in DetectTokens}
    \cup
    {[name |-> "getTrades", args |-> a] :
        a \in {NoArgs, Args(<<>>),
               Args("limit" :> Num(10) @@ "offset" :> Num(0)),
               Args("limit" :> Num(5) @@ "offset" :> Num(20)
                    @@ "token" :> Str(SvmToken) @@ "chain" :> Str("svm")),
               Args("limit" :> Num(0) @@ "token" :> Str(""))}}
    \cup
    {[name |-> "getPrice", args |-> a] :
        a \in {Args("token" :> Str("0x123")),
               Args("token" :> Str("0x123") @@ "chain" :> Str("evm")
                    @@ "specificChain" :> Str("eth"))}}
    \cup
    {[name |-> "executeTrade", args |-> Args(bag)] :
        bag \in {Trade(EvmToken, SvmToken),
                 Trade(EvmToken, SvmToken) @@ "fromChain" :> Str("svm")
                    @@ "toChain" :> Str("evm"),
                 Trade(UpperToken, UnlistedToken),
                 Trade(UsdcSvm, SvmToken),
                 Trade(LowerToken, "0x123") @@ "fromSpecificChain" :> Str("base"),
                 Trade("0x123", "0x456") @@ "fromChain" :> Str("evm")
                    @@ "toChain" :> Str("evm") @@ "fromSpecificChain" :> Str("eth")
                    @@ "toSpecificChain" :> Str("eth")
                    @@ "slippageTolerance" :> Str("0.5")}}
    \cup
    {[name |-> "getBalances", args |-> NoArgs]}

\* method calls a program makes on a signed Client it holds
SignedCalls ==
    {[name |-> "executeTrade", args |-> Args(bag)] :
        bag \in {Trade(EvmToken, SvmToken),
                 Trade(EvmToken, SvmToken) @@ "fromChain" :> Str("svm")
                    @@ "toChain" :> Str("evm"),
                 Trade(UpperToken, UnlistedToken),
                 Trade(UsdcSvm, SvmToken),
                 Trade(LowerToken, "0x123") @@ "fromSpecificChain" :> Str("base"),
                 Trade("0x123", "0x456") @@ "slippageTolerance" :> Str("0.5")}}
    \cup
    {[name |-> "getBalances", args |-> NoArgs]}
    \cup
    {[name |-> "detectChain", args |-> Args("token" :> Str(t))] :
        t \in {EvmToken, SvmToken, UpperToken}}

ApiSecrets == {"", " s3cr3t "}

\* base URLs a program constructs its own Client with
DirectBaseUrls == {"http://x", "http://x/", "http://x//"}

\* the server with two calls in flight at once is offered fewer tools,
\* argument bags and bodies than the server that takes one call at a time
ServerNames == {"get_balances", "get_trades"}
ServerStatuses == {200, 401}
ServerBags == {Args("limit" :> Num(10) @@ "offset" :> Num(0))}
ServerBodyTexts ==
    {"{\"success\":false,\"error\":\"Unauthorized\",\"status\":401}",
     Stringify(BalancesJson)}

NamesOffered == IF slots = CallIds THEN ServerNames ELSE RequestedNames
BagsOffered == IF slots = CallIds THEN ServerBags ELSE ArgumentBags
StatusesOffered == IF slots = CallIds THEN ServerStatuses ELSE Statuses
BodiesOffered ==
    IF slots = CallIds THEN {Response(text) : text \in ServerBodyTexts} ELSE Bodies

\* what the process writes to standard output: a JSON-RPC message of the
\* protocol, written whole by the transport, or the text of another write
Message(id) == [kind |-> "message", id |-> id, text |-> ""]
Raw(text) == [kind |-> "raw", id |-> 0, text |-> text]

(***************************************************************************)
(* The state of one tool call                                              *)
(***************************************************************************)
NoFetch == [method |-> "", url |-> "", headers |-> <<>>, hasBody |-> FALSE, body |-> ""]
NoBody == NotJson("")

\* io: how far the HTTP exchange of the call got ("none", "responded",
\* "read", "fetch failed", "read failed")
\* cancelled: the host cancelled the call while it was in flight;
\* overlap: a request of another call was in flight when this one arrived;
\* listed: the tools a list_tools request was answered with
Idle ==
    [pc |-> "idle", name |-> "", args |-> NoArgs, aborted |-> FALSE,
     cancelled |-> FALSE, overlap |-> FALSE, listed |-> {},
     fetch |-> NoFetch, nHttp |-> 0, io |-> "none", status |-> 0, body |-> NoBody,
     outcome |-> Pending, envelopes |-> <<>>, escaped |-> FALSE]

\* the handler ran to a return or a throw, or stopped at its await
Continue(c, rec, step) ==
    CASE step.kind = "return" ->
            [rec EXCEPT !.pc = "done", !.envelopes = Append(@, step.env)]
      [] step.kind = "throw" ->
            [rec EXCEPT !.pc = "done", !.escaped = TRUE]
      [] step.kind = "settle" ->
            [rec EXCEPT !.pc = "done"]
      [] OTHER ->
            [rec EXCEPT !.pc = "fetching", !.fetch = step.fetch, !.nHttp = @ + 1,
                        !.outcome = Pending]

Entry(b, cl, name, a, aborted) ==
    IF b = "main" THEN CallTool(cl, name, a, aborted)
    ELSE CallTool_backlog(cl, name, a)

\* part_002: the request of a Client method settled; executeTrade's first
\* request is followed by a second one when its catch retries
MethodSettled_p002(cl, rec, outcome) ==
    IF /\ rec.name = "executeTrade"
       /\ rec.nHttp = 1
       /\ outcome.kind = "rejected"
       /\ Retries(rec.args.bag, outcome.error)
    THEN Await(executeTradeFallback_p002(cl, rec.args.bag))
    ELSE Settle

Settled(b, name, outcome) ==
    IF b = "main" THEN CallToolSettled(name, outcome)
    ELSE CallToolSettled_backlog(name, outcome)

(***************************************************************************)
(* Actions                                                                 *)
(***************************************************************************)
\* a request of another call is on the wire
InFlightBeside(c) ==
    \E d \in CallIds \ {c} : call[d].pc \in {"fetching", "reading"}

\* the host presents call_tool(name, arguments), perhaps already cancelled;
\* the module that exports tradingClient loaded, so its constructor returned
Receive(c) ==
    /\ c \in slots
    /\ ~client.thrown
    /\ call[c].pc = "idle"
    /\ served < MaxCalls
    /\ \E name \in NamesOffered, a \in BagsOffered, aborted \in BOOLEAN :
          LET rec == [Idle EXCEPT !.name = name, !.args = a, !.aborted = aborted,
                                  !.overlap = InFlightBeside(c)]
          IN  call' = [call EXCEPT ![c] =
                          Continue(c, rec, Entry(build, client, name, a, aborted))]
    /\ served' = served + 1
    /\ UNCHANGED <<build, ctorArgs, client, slots, stdout>>

\* a Client that looks at the status as soon as the response is there and
\* fails a non-success response without reading its body
FetchResolvesDecides(c) ==
    /\ call[c].pc = "fetching"
    /\ \E status \in StatusesOffered :
          LET rec == [call[c] EXCEPT !.io = "responded", !.status = status]
              failed == Rejected(Error("API request failed with status "
                                       \o ToString(status)))
          IN  call' = [call EXCEPT ![c] =
                  IF Ok(status) THEN [rec EXCEPT !.pc = "reading"]
                  ELSE Continue(c, [rec EXCEPT !.outcome = failed],
                                Settled(build, rec.name, failed))]
    /\ UNCHANGED <<build, ctorArgs, client, slots, served, stdout>>

\* fetch() resolves with a response: the Client goes on to read its text
FetchResolves(c) ==
    /\ call[c].pc = "fetching"
    /\ \E status \in StatusesOffered :
          call' = [call EXCEPT ![c].pc = "reading", ![c].io = "responded",
                                  ![c].status = status]
    /\ UNCHANGED <<build, ctorArgs, client, slots, served, stdout>>

\* the Client call settles: the handler resumes, or, where the Client is
\* used directly, its caller has the outcome
Finish(c, rec, outcome) ==
    Continue(c, [rec EXCEPT !.outcome = outcome],
             CASE build = "client" -> Settle
               [] build = "signed" -> MethodSettled_p002(client, rec, outcome)
               [] OTHER -> Settled(build, rec.name, outcome))

\* what request() makes of a rejection of fetch(), of the body text, and of
\* a rejection of response.text(), in the Client of the build
OnFetchRejected(e) ==
    CASE build \in {"main", "client"} -> RequestNetworkError(e)
      [] build = "signed" -> RequestNetworkError_p002(e)
      [] OTHER -> RequestCaught_p005(e)

OnText(status, body) ==
    CASE build \in {"main", "client"} -> RequestSettled(status, body)
      [] build = "signed" -> RequestSettled_p002(status, body)
      [] OTHER -> RequestSettled_p005(status, body)

OnTextRejected(e) ==
    CASE build \in {"main", "client"} -> RequestReadError(e)
      [] build = "signed" -> RequestReadError_p002(e)
      [] OTHER -> RequestCaught_p005(e)

\* fetch() rejects: a transport-level failure
FetchRejects(c) ==
    /\ call[c].pc = "fetching"
    /\ \E e \in TransportErrors :
          call' = [call EXCEPT ![c] =
                      Finish(c, [call[c] EXCEPT !.io = "fetch failed"],
                             OnFetchRejected(e))]
    /\ UNCHANGED <<build, ctorArgs, client, slots, served, stdout>>

\* a Client that keeps the status of the latest response in a field all
\* calls share
TextResolvesShared(c) ==
    /\ call[c].pc = "reading"
    /\ \E body \in BodiesOffered :
          LET others == {d \in CallIds \ {c} : call[d].io \in {"responded", "read"}}
              status == IF others = {} THEN call[c].status
                        ELSE call[CHOOSE d \in others : TRUE].status
          IN  call' = [call EXCEPT ![c] =
                          Finish(c, [call[c] EXCEPT !.io = "read", !.body = body],
                                 OnText(status, body))]
    /\ UNCHANGED <<build, ctorArgs, client, slots, served, stdout>>

\* response.text() resolves with the whole body
TextResolves(c) ==
    /\ call[c].pc = "reading"
    /\ \E body \in BodiesOffered :
          call' = [call EXCEPT ![c] =
                      Finish(c, [call[c] EXCEPT !.io = "read", !.body = body],
                             OnText(call[c].status, body))]
    /\ UNCHANGED <<build, ctorArgs, client, slots, served, stdout>>

\* response.text() rejects: the connection broke while the body was read
TextRejects(c) ==
    /\ call[c].pc = "reading"
    /\ \E e \in TransportErrors :
          call' = [call EXCEPT ![c] =
                      Finish(c, [call[c] EXCEPT !.io = "read failed"],
                             OnTextRejected(e))]
    /\ UNCHANGED <<build, ctorArgs, client, slots, served, stdout>>

\* the protocol layer sends the handler's result to the host; the slot is
\* free for the next call
Respond(c) ==
    /\ call[c].pc \in {"done", "listed"}
    /\ call' = [call EXCEPT ![c] = Idle]
    /\ stdout' = IF build \in {"main", "profile"}
                 THEN Append(stdout, Message(c)) ELSE stdout
    /\ UNCHANGED <<build, ctorArgs, client, slots, served>>

\* the request a Client method starts; getTrades() without options has no
\* query string
Method(cl, name, a) ==
    CASE name = "getTrades" ->
            IF a.present THEN getTrades(cl, a.bag)
            ELSE FetchCall(cl, "GET", "/api/account/trades", JNull)
      [] name = "getPrice" -> getPrice(cl, a.bag)
      [] name = "executeTrade" -> executeTrade(cl, a.bag)
      [] OTHER -> getBalances(cl)

\* a program calls a method of the Client it holds: detectChain returns at
\* once, an endpoint method starts its request
Invoke(c) ==
    /\ c \in slots
    /\ ~client.thrown
    /\ call[c].pc = "idle"
    /\ served < MaxCalls
    /\ \E m \in ClientCalls :
          LET rec == [Idle EXCEPT !.name = m.name, !.args = m.args]
          IN  call' = [call EXCEPT ![c] =
                  IF m.name = "detectChain"
                  THEN Continue(c, [rec EXCEPT !.outcome =
                           Resolved(JStr(detectChain(ToStr(m.args.bag["token"]))))],
                           Settle)
                  ELSE Continue(c, rec, Await(Method(client, m.name, m.args)))]
    /\ served' = served + 1
    /\ UNCHANGED <<build, ctorArgs, client, slots, stdout>>

\* new TradingSimulatorClient(): the constructor arguments as they were
\* given; normalized says that baseUrl is itself a stored base URL
Given(apiKey, baseUrl, normalized) ==
    [apiKey |-> apiKey, baseUrl |-> baseUrl, normalized |-> normalized]

InitClient ==
    \E apiKey \in ApiKeys, baseUrl \in BaseUrls :
        /\ ctorArgs = Given(apiKey, baseUrl, FALSE)
        /\ client = Constructor(apiKey, "", baseUrl, FALSE)

Init ==
    /\ build = "main"
    /\ InitClient
    /\ slots = {1}
    /\ call = [c \in CallIds |-> Idle]
    /\ served = 0
    /\ stdout = <<>>

\* the "profile" build: backlog.md's index.ts with part_005's api-client.ts
InitProfile ==
    /\ build = "profile"
    /\ InitClient
    /\ slots = {1}
    /\ call = [c \in CallIds |-> Idle]
    /\ served = 0
    /\ stdout = <<>>

Next ==
    \E c \in CallIds :
        \/ Receive(c)
        \/ FetchResolves(c)
        \/ FetchRejects(c)
        \/ TextResolves(c)
        \/ TextRejects(c)
        \/ Respond(c)

Spec == Init /\ [][Next]_vars

SpecProfile == InitProfile /\ [][Next]_vars

\* the running server of src/src/index.ts: the SDK starts a handler for
\* every request as it arrives, so two calls may be in flight at once
InitServer ==
    /\ build = "main"
    /\ ctorArgs = Given("  sk_test_4f9a  ", "http://localhost:3000/", FALSE)
    /\ client = Constructor("  sk_test_4f9a  ", "", "http://localhost:3000/", FALSE)
    /\ slots = CallIds
    /\ call = [c \in CallIds |-> Idle]
    /\ served = 0
    /\ stdout = <<>>

\* the host presents list_tools, perhaps already cancelled
ListTools(c) ==
    /\ c \in slots
    /\ call[c].pc = "idle"
    /\ served < MaxCalls
    /\ \E aborted \in BOOLEAN :
          call' = [call EXCEPT ![c] =
                      [Idle EXCEPT !.pc = "listed", !.name = "tools/list",
                                   !.aborted = aborted,
                                   !.listed = ListToolsHandler(aborted)]]
    /\ served' = served + 1
    /\ UNCHANGED <<build, ctorArgs, client, slots, stdout>>

\* the host cancels a call whose HTTP request is in flight: the SDK aborts
\* the signal of the request; no code of the handler or of the Client
\* looks at the signal after the handler's first statement
Cancel(c) ==
    /\ call[c].pc \in {"fetching", "reading"}
    /\ ~call[c].cancelled
    /\ call' = [call EXCEPT ![c].cancelled = TRUE]
    /\ UNCHANGED <<build, ctorArgs, client, slots, served, stdout>>

Pings == Cardinality({i \in 1..Len(stdout) : stdout[i].kind = "raw"})

\* the keep-alive timer of main() fires: process.stdout.write('// ping\n')
Ping ==
    /\ Pings < MaxPings
    /\ stdout' = Append(stdout, Raw("// ping\n"))
    /\ UNCHANGED <<build, ctorArgs, client, slots, call, served>>

NextServer ==
    \/ Ping
    \/ \E c \in CallIds :
          \/ Receive(c)
          \/ ListTools(c)
          \/ Cancel(c)
          \/ FetchResolves(c)
          \/ FetchRejects(c)
          \/ TextResolves(c)
          \/ TextRejects(c)
          \/ Respond(c)

SpecServer == InitServer /\ [][NextServer]_vars

\* the Client of src/src/api-client.ts constructed and used directly
InitDirect ==
    /\ build = "client"
    /\ \E apiKey \in ApiKeys, baseUrl \in DirectBaseUrls :
          /\ ctorArgs = Given(apiKey, baseUrl, FALSE)
          /\ client = Constructor(apiKey, "", baseUrl, FALSE)
    /\ slots = {1}
    /\ call = [c \in CallIds |-> Idle]
    /\ served = 0
    /\ stdout = <<>>

\* the program constructs another Client from the base URL the first one
\* stored
Reconstruct ==
    /\ ~ctorArgs.normalized
    /\ \A c \in CallIds : call[c].pc = "idle"
    /\ ctorArgs' = Given(client.apiKey, client.baseUrl, TRUE)
    /\ client' = Constructor(client.apiKey, "", client.baseUrl, client.debug)
    /\ UNCHANGED <<build, slots, call, served, stdout>>

NextDirect ==
    \/ Reconstruct
    \/ \E c \in CallIds :
          \/ Invoke(c)
          \/ FetchResolves(c)
          \/ FetchRejects(c)
          \/ TextResolves(c)
          \/ TextRejects(c)
          \/ Respond(c)

SpecClient == InitDirect /\ [][NextDirect]_vars

\* the signed Client of src/unnamed/part_002 constructed and used directly
InitSigned ==
    /\ build = "signed"
    /\ \E apiKey \in ApiKeys, apiSecret \in ApiSecrets, baseUrl \in DirectBaseUrls :
          /\ ctorArgs = Given(apiKey, baseUrl, FALSE)
          /\ client = Constructor_p002(apiKey, apiSecret, baseUrl, FALSE)
    /\ slots = {1}
    /\ call = [c \in CallIds |-> Idle]
    /\ served = 0
    /\ stdout = <<>>

Method_p002(cl, name, a) ==
    IF name = "executeTrade" THEN executeTrade_p002(cl, a.bag)
    ELSE getBalances_p002(cl)

\* a program calls a method of the signed Client it holds
Invoke_p002(c) ==
    /\ c \in slots
    /\ call[c].pc = "idle"
    /\ served < MaxCalls
    /\ \E m \in SignedCalls :
          LET rec == [Idle EXCEPT !.name = m.name, !.args = m.args]
          IN  call' = [call EXCEPT ![c] =
                  IF m.name = "detectChain"
                  THEN Continue(c, [rec EXCEPT !.outcome =
                           Resolved(JStr(detectChain(ToStr(m.args.bag["token"]))))],
                           Settle)
                  ELSE Continue(c, rec, Await(Method_p002(client, m.name, m.args)))]
    /\ served' = served + 1
    /\ UNCHANGED <<build, ctorArgs, client, slots, stdout>>

NextSigned ==
    \E c \in CallIds :
        \/ Invoke_p002(c)
        \/ FetchResolves(c)
        \/ FetchRejects(c)
        \/ TextResolves(c)
        \/ TextRejects(c)
        \/ Respond(c)

SpecSigned == InitSigned /\ [][NextSigned]_vars

(***************************************************************************)
(* Vocabulary of the properties                                            *)
(***************************************************************************)
Done(c) == call[c].pc = "done"
Started(c) == call[c].pc # "idle"
Envelope(c) == call[c].envelopes[1]
Text(c) == Envelope(c).content[1].text
Answered(c) == Done(c) /\ Len(call[c].envelopes) = 1
HasIsError(env) == "isError" \in DOMAIN env
IsError(c) == HasIsError(Envelope(c)) /\ Envelope(c).isError = TRUE

\* the remote API answered and the whole body was read
BodyRead(c) == call[c].io = "read"
\* the HTTP exchange failed: transport, status or unparseable success body
RemoteFailed(c) ==
    \/ call[c].io \in {"fetch failed", "read failed"}
    \/ BodyRead(c) /\ ~Ok(call[c].status)
    \/ BodyRead(c) /\ Ok(call[c].status) /\ ~call[c].body.parses

StartsWith(s, prefix) ==
    Len(s) >= Len(prefix) /\ SubSeq(s, 1, Len(prefix)) = prefix

Catalog == IF build = "main" THEN TRADING_SIM_TOOLS ELSE TRADING_SIM_TOOLS_backlog

\* inputSchema.required of each tool
Required(name) ==
    CASE name \in {"get_price", "get_token_info", "get_price_history"} -> {"token"}
      [] name \in {"execute_trade", "get_quote"} -> {"fromToken", "toToken", "amount"}
      [] OTHER -> {}

LacksRequired(c) ==
    \E k \in Required(call[c].name) :
        ~call[c].args.present \/ ~In(k, call[c].args)

\* inputSchema.properties[field].enum of each tool, {} where there is none
BlockchainTypes == {"svm", "evm"}
SpecificChains ==
    {"eth", "polygon", "bsc", "arbitrum", "base", "optimism", "avalanche",
     "linea", "svm"}
Intervals == {"1m", "5m", "15m", "1h", "4h", "1d"}

Enum(name, field) ==
    CASE field = "chain" /\ name \in {"get_trades", "get_price", "get_token_info",
                                      "get_price_history"} -> BlockchainTypes
      [] field = "specificChain" /\ name \in {"get_price", "get_token_info",
                                              "get_price_history"} -> SpecificChains
      [] field = "interval" /\ name = "get_price_history" -> Intervals
      [] OTHER -> {}

BadEnum(c) ==
    /\ call[c].args.present
    /\ \E k \in DOMAIN call[c].args.bag :
          /\ Enum(call[c].name, k) # {}
          /\ ToStr(call[c].args.bag[k]) \notin Enum(call[c].name, k)

(***************************************************************************)
(* Properties of the Dispatcher                                            *)
(***************************************************************************)
\* C1: every call_tool invocation, whatever the tool name, the arguments and
\* the Client's outcome, ends with exactly one ResultEnvelope emitted and
\* with no exception leaving the handler; until then it has emitted nothing
\* and waits only for the HTTP exchange
C1_ExactlyOneEnvelope ==
    \A c \in CallIds :
        /\ ~call[c].escaped
        /\ Len(call[c].envelopes) = (IF Done(c) THEN 1 ELSE 0)
        /\ (Started(c) /\ ~Done(c)) => call[c].pc \in {"fetching", "reading"}

\* a call whose Client call rejected has been answered with one envelope
C1_Witness ==
    \E c \in CallIds :
        /\ Done(c)
        /\ call[c].outcome.kind = "rejected"
        /\ Len(call[c].envelopes) = 1

\* C2: every error surfaces to the host as an envelope with isError true: a
\* failed remote call (transport failure, non-success status, unparseable
\* success body), a missing required argument and an unknown tool are never
\* answered with isError false
C2_ErrorsAreFlagged ==
    \A c \in CallIds :
        (Done(c) /\ (\/ RemoteFailed(c)
                     \/ call[c].name \notin Catalog
                     \/ LacksRequired(c)))
            => (Answered(c) /\ IsError(c))

\* get_balances, answered 500 {"error":{"message":"boom"}} by the remote API,
\* is reported to the host with isError false
C2_Witness ==
    \E c \in CallIds :
        /\ Answered(c)
        /\ call[c].name = "get_balances"
        /\ BodyRead(c) /\ call[c].status = 500
        /\ call[c].body.text = "{\"error\":{\"message\":\"boom\"}}"
        /\ HasIsError(Envelope(c)) /\ Envelope(c).isError = FALSE

\* C3: every envelope call_tool returns, for every tool, has a content array
\* holding a text block and an explicit boolean isError field, which is false
\* where the Client call resolved and true on every failure path
C3_EnvelopeShape ==
    \A c \in CallIds :
        Done(c) =>
            /\ Answered(c)
            /\ Len(Envelope(c).content) >= 1
            /\ Envelope(c).content[1].type = "text"
            /\ HasIsError(Envelope(c))
            /\ Envelope(c).isError \in BOOLEAN
            /\ Envelope(c).isError = (call[c].outcome.kind # "resolved")

\* get_competition_rules, answered 200 by the remote API, returns an envelope
\* with no isError field
C3_Witness ==
    \E c \in CallIds :
        /\ Answered(c)
        /\ call[c].name = "get_competition_rules"
        /\ BodyRead(c) /\ call[c].status = 200 /\ call[c].body.parses
        /\ ~HasIsError(Envelope(c))

\* C4: call_tool with a name that is not in the catalog always returns an
\* envelope with isError true whose message names the unknown tool, never
\* throws out of the Dispatcher and issues no HTTP request
C4_UnknownToolNamed ==
    \A c \in CallIds :
        (Started(c) /\ call[c].name \notin TRADING_SIM_TOOLS) =>
            /\ Answered(c) /\ ~call[c].escaped
            /\ IsError(c)
            /\ Text(c) = "Unknown tool: " \o call[c].name
            /\ call[c].nHttp = 0

\* C4, amended: as C4, but the message names the unknown tool only when the
\* call was not already cancelled on entry; a cancelled call is answered
\* "Request aborted"
C4_UnknownToolOrAborted ==
    \A c \in CallIds :
        (Started(c) /\ call[c].name \notin TRADING_SIM_TOOLS) =>
            /\ Answered(c) /\ ~call[c].escaped
            /\ IsError(c)
            /\ Text(c) = (IF call[c].aborted THEN "Request aborted"
                          ELSE "Unknown tool: " \o call[c].name)
            /\ call[c].nHttp = 0

\* get_weather, not cancelled, has been answered "Unknown tool: get_weather"
C4_Witness ==
    \E c \in CallIds :
        /\ Answered(c)
        /\ call[c].name = "get_weather" /\ ~call[c].aborted
        /\ Text(c) = "Unknown tool: get_weather"
        /\ IsError(c)

\* C5: call_tool for a tool with required fields (get_price, get_token_info,
\* get_price_history, execute_trade, get_quote) whose arguments lack a
\* required field returns isError true with the message of the missing
\* argument, and issues zero HTTP requests
C5_MissingRequired ==
    \A c \in CallIds :
        (Started(c) /\ Required(call[c].name) # {} /\ LacksRequired(c)) =>
            /\ Answered(c)
            /\ IsError(c)
            /\ Text(c) = "Error: Invalid arguments for " \o call[c].name
            /\ call[c].nHttp = 0

\* C5, amended: as C5, but the message is the invalid-arguments message only
\* when the call was not already cancelled on entry; a cancelled call is
\* answered "Request aborted"
C5_MissingRequiredOrAborted ==
    \A c \in CallIds :
        (Started(c) /\ Required(call[c].name) # {} /\ LacksRequired(c)) =>
            /\ Answered(c)
            /\ IsError(c)
            /\ Text(c) = (IF call[c].aborted THEN "Request aborted"
                          ELSE "Error: Invalid arguments for " \o call[c].name)
            /\ call[c].nHttp = 0

\* get_quote without amount, not cancelled, has been refused with no request
C5_Witness ==
    \E c \in CallIds :
        /\ Answered(c)
        /\ call[c].name = "get_quote" /\ ~call[c].aborted
        /\ call[c].args.present
        /\ DOMAIN call[c].args.bag = {"fromToken", "toToken"}
        /\ Text(c) = "Error: Invalid arguments for get_quote"
        /\ call[c].nHttp = 0

\* C6: call_tool with an enum-constrained field (chain, specificChain,
\* interval) holding a value outside its allowed set is answered with an
\* error envelope before any HTTP request is made
C6_EnumsValidated ==
    \A c \in CallIds :
        (Started(c) /\ call[c].name \in TRADING_SIM_TOOLS /\ BadEnum(c)) =>
            /\ call[c].nHttp = 0
            /\ Answered(c)
            /\ IsError(c)

\* get_price with chain "solana" has put a request on the wire
C6_Witness ==
    \E c \in CallIds :
        /\ call[c].pc = "fetching"
        /\ call[c].name = "get_price"
        /\ call[c].args.present /\ In("chain", call[c].args)
        /\ call[c].args.bag["chain"] = Str("solana")
        /\ call[c].nHttp = 1
        /\ LET url == call[c].fetch.url
               query == "&chain=solana"
           IN  /\ Len(url) > Len(query)
               /\ SubSeq(url, Len(url) - Len(query) + 1, Len(url)) = query

\* C7: when the Client call rejects with a failure whose message is m, the
\* envelope is an error envelope whose text is exactly m
C7_TextIsMessage ==
    \A c \in CallIds :
        (Done(c) /\ call[c].outcome.kind = "rejected") =>
            /\ Answered(c)
            /\ IsError(c)
            /\ Text(c) = call[c].outcome.error.message

\* C7, amended: when the Client call rejects with a failure whose message is
\* m, the envelope is an error envelope whose text is "Error: " followed by m
C7_TextIsPrefixedMessage ==
    \A c \in CallIds :
        (Done(c) /\ call[c].outcome.kind = "rejected") =>
            /\ Answered(c)
            /\ IsError(c)
            /\ Text(c) = "Error: " \o call[c].outcome.error.message

\* 500 {"error":{"message":"boom"}} has been answered "Error: boom"
C7_Witness ==
    \E c \in CallIds :
        /\ Answered(c)
        /\ BodyRead(c) /\ call[c].status = 500
        /\ call[c].body.text = "{\"error\":{\"message\":\"boom\"}}"
        /\ call[c].outcome.kind = "rejected"
        /\ call[c].outcome.error.message = "boom"
        /\ Text(c) = "Error: boom"

(***************************************************************************)
(* Properties of the Client's request()                                    *)
(***************************************************************************)
\* body.error.message and body.message of a parsed body, JUndef where absent
NestedMessage(b) ==
    IF b.parses /\ HasKey(b.value, "error") /\ HasKey(Get(b.value, "error"), "message")
    THEN Get(Get(b.value, "error"), "message")
    ELSE JUndef

TopMessage(b) ==
    IF b.parses /\ HasKey(b.value, "message") THEN Get(b.value, "message") ELSE JUndef

NonEmptyString(v) == v.jt = "string" /\ v.s # ""

\* the Client answered a call with a status that is not a success
NonSuccess(c) == Done(c) /\ BodyRead(c) /\ ~Ok(call[c].status)

\* C8: a non-success status makes the Client call reject with a message
\* taken from the body by the chain: the body's nested error.message if
\* present, else its top-level message if present, else the raw response
\* text when the body is not parseable JSON
C8_MessageChain ==
    \A c \in CallIds :
        NonSuccess(c) =>
            /\ call[c].outcome.kind = "rejected"
            /\ LET b == call[c].body
                   m == call[c].outcome.error.message
               IN  IF NestedMessage(b).jt = "string" THEN m = NestedMessage(b).s
                   ELSE IF TopMessage(b).jt = "string" THEN m = TopMessage(b).s
                   ELSE ~b.parses => m = b.text

\* C8, amended: the chain takes the nested error.message if present and not
\* empty, else the top-level message if present and not empty, else the raw
\* response text when the body is not blank and is not parseable JSON (or is
\* the JSON null), else "API request failed with status <status>"
C8_MessageChainNonEmpty ==
    \A c \in CallIds :
        NonSuccess(c) =>
            /\ call[c].outcome.kind = "rejected"
            /\ LET b == call[c].body
                   m == call[c].outcome.error.message
               IN  m = IF NonEmptyString(NestedMessage(b)) THEN NestedMessage(b).s
                       ELSE IF NonEmptyString(TopMessage(b)) THEN TopMessage(b).s
                       ELSE IF Trim(b.text) # "" /\ (~b.parses \/ b.value = JNull)
                            THEN b.text
                       ELSE "API request failed with status "
                            \o ToString(call[c].status)

\* a 401 whose body has both messages rejected with the nested one
C8_Witness ==
    \E c \in CallIds :
        /\ NonSuccess(c)
        /\ call[c].status = 401
        /\ call[c].body.text = "{\"error\":{\"message\":\"boom\"},\"message\":\"top\"}"
        /\ call[c].outcome.kind = "rejected"
        /\ call[c].outcome.error.message = "boom"

\* C9: a non-success status makes the Client call reject with a failure that
\* carries the extracted message and the numeric HTTP status
C9_StatusCarried ==
    \A c \in CallIds :
        NonSuccess(c) =>
            /\ call[c].outcome.kind = "rejected"
            /\ call[c].outcome.error.message
                  = ErrorMessage(call[c].status, call[c].body)
            /\ "status" \in DOMAIN call[c].outcome.error
            /\ call[c].outcome.error.status = call[c].status

\* 401 {"message":"top"} rejected with a failure that has a message and no
\* status
C9_Witness ==
    \E c \in CallIds :
        /\ NonSuccess(c)
        /\ call[c].status = 401
        /\ call[c].outcome.kind = "rejected"
        /\ call[c].outcome.error.message = "top"
        /\ "status" \notin DOMAIN call[c].outcome.error

\* C10: a success status with a body that is not parseable JSON makes the
\* Client call reject with a parse failure; the call is never answered as a
\* success, empty or otherwise, and its envelope never has isError false
C10_UnparseableSuccessFails ==
    \A c \in CallIds :
        (Done(c) /\ BodyRead(c) /\ Ok(call[c].status) /\ ~call[c].body.parses) =>
            /\ call[c].outcome.kind = "rejected"
            /\ StartsWith(call[c].outcome.error.message,
                          "Failed to parse successful response")
            /\ Answered(c)
            /\ IsError(c)

\* 200 "not json" has been answered with an error envelope
C10_Witness ==
    \E c \in CallIds :
        /\ Answered(c)
        /\ BodyRead(c) /\ call[c].status = 200
        /\ call[c].body.text = "not json"
        /\ call[c].outcome.kind = "rejected"
        /\ IsError(c)

\* the HTTP exchange of the call broke at the transport level
TransportFailed(c) == Done(c) /\ call[c].io \in {"fetch failed", "read failed"}

\* C11: on any transport-level failure of the HTTP call the Client call
\* rejects with one fixed generic message, the same for every underlying
\* transport exception, and that message never contains the text of the
\* transport exception
C11_GenericNetworkError ==
    \A c \in CallIds :
        TransportFailed(c) =>
            /\ call[c].outcome.kind = "rejected"
            /\ call[c].outcome.error.message
                  = "Network error occurred while making API request."
            /\ \A e \in TransportErrors :
                  ~Contains(call[c].outcome.error.message, e.message)

\* the connection broke while the body was read, and the Client call
\* rejected with the text of the transport exception
C11_Witness ==
    \E c \in CallIds :
        /\ Done(c)
        /\ call[c].io = "read failed"
        /\ call[c].outcome.kind = "rejected"
        /\ call[c].outcome.error.message
              = "fetch failed: connect ECONNREFUSED 10.0.0.5:3000"
        /\ Text(c) = "Error: fetch failed: connect ECONNREFUSED 10.0.0.5:3000"

Requested(c) == Started(c) /\ call[c].nHttp >= 1

\* the JSON value of the outbound request body
SentBody(c) == JsonParse(call[c].fetch.body).value

\* the chain the outbound body must carry for a token: the caller's value
\* if the caller supplied one, else what detectChain says of the address
ExpectedChain(c, chainField, tokenField) ==
    IF In(chainField, call[c].args)
    THEN ToStr(call[c].args.bag[chainField])
    ELSE detectChain(ToStr(call[c].args.bag[tokenField]))

\* C14: for execute_trade the fromChain/toChain of the outbound body are
\* derived by detectChain from the token address when the caller omitted
\* them, and only then: a chain the caller supplied reaches the body unchanged
C14_ChainsDerivedWhenOmitted ==
    \A c \in CallIds :
        (Requested(c) /\ call[c].name = "execute_trade") =>
            /\ call[c].fetch.hasBody
            /\ Get(SentBody(c), "fromChain")
                  = JStr(ExpectedChain(c, "fromChain", "fromToken"))
            /\ Get(SentBody(c), "toChain")
                  = JStr(ExpectedChain(c, "toChain", "toToken"))

\* execute_trade called with fromChain "svm" and toChain "evm" has sent a
\* body with fromChain "evm" and toChain "svm"
C14_Witness ==
    \E c \in CallIds :
        /\ Requested(c) /\ call[c].name = "execute_trade"
        /\ In("fromChain", call[c].args) /\ In("toChain", call[c].args)
        /\ call[c].args.bag["fromChain"] = Str("svm")
        /\ call[c].args.bag["toChain"] = Str("evm")
        /\ Get(SentBody(c), "fromChain") = JStr("evm")
        /\ Get(SentBody(c), "toChain") = JStr("svm")

(***************************************************************************)
(* Properties of the Client used directly                                  *)
(***************************************************************************)
\* the program called method m of the Client and the call has settled
Called(c, m) == call[c].pc = "done" /\ call[c].name = m

\* the string argument k of the call in slot c
Argument(c, k) == ToStr(call[c].args.bag[k])

HexChars == "0123456789abcdefABCDEF"

\* s matches ^0x[0-9a-fA-F]{40}$: the two-character prefix, then forty
\* characters each of which is a hexadecimal digit, and nothing else
MatchesEvmPattern(s) ==
    /\ Len(s) = 42
    /\ Char(s, 1) = "0" /\ Char(s, 2) = "x"
    /\ \A i \in 3..42 : \E j \in 1..Len(HexChars) : Char(s, i) = Char(HexChars, j)

\* C16: detectChain returns a value for every string, and the same value
\* however often and under whatever Client it is called: "evm" for the
\* addresses that match ^0x[0-9a-fA-F]{40}$ and "svm" for every other
\* string; it issues no request.
C16_DetectChainPattern ==
    \A c \in CallIds :
        Called(c, "detectChain") =>
            /\ call[c].nHttp = 0
            /\ call[c].outcome =
                   Resolved(JStr(IF MatchesEvmPattern(Argument(c, "token"))
                                 THEN "evm" ELSE "svm"))

\* detectChain has answered "svm" for an address that has the prefix and
\* forty characters after it, one of which is no hexadecimal digit
C16_Witness ==
    \E c \in CallIds :
        /\ Called(c, "detectChain")
        /\ Argument(c, "token") = "0xG2aaA39b223FE8D0A0e5C4F27eAD9083C756Cc2"
        /\ call[c].outcome = Resolved(JStr("svm"))

\* the optional parameters an endpoint method puts into its query string
QueryOptions(m) ==
    CASE m = "getTrades" -> {"limit", "offset", "token", "chain"}
      [] m = "getPrice" -> {"chain", "specificChain"}
      [] OTHER -> {}

\* the caller supplied the optional parameter k
Supplied(c, k) == call[c].args.present /\ k \in DOMAIN call[c].args.bag

\* the query string of the request of slot c names the parameter k
Names(c, k) ==
    \/ Contains(call[c].fetch.url, "?" \o k \o "=")
    \/ Contains(call[c].fetch.url, "&" \o k \o "=")

\* the query string of the request of slot c carries k with the value given
Carries(c, k) ==
    \/ Contains(call[c].fetch.url, "?" \o k \o "=" \o FormEncode(Argument(c, k)))
    \/ Contains(call[c].fetch.url, "&" \o k \o "=" \o FormEncode(Argument(c, k)))

\* C17: an optional parameter of an endpoint method is named in the query
\* string of the request if and only if the caller supplied it, and then
\* with the value supplied; the words "null" and "undefined" are never sent
\* in place of a value.
C17_QueryCarriesWhatIsSupplied ==
    \A c \in CallIds :
        \A k \in QueryOptions(call[c].name) :
            call[c].nHttp > 0 =>
                /\ Names(c, k) <=> Supplied(c, k)
                /\ Supplied(c, k) => Carries(c, k)
                /\ ~Contains(call[c].fetch.url, "=undefined")
                /\ ~Contains(call[c].fetch.url, "=null")

\* getTrades({limit: 10, offset: 0}) has sent its request without offset
C17_Witness ==
    \E c \in CallIds :
        /\ call[c].name = "getTrades"
        /\ Supplied(c, "offset") /\ Argument(c, "offset") = "0"
        /\ call[c].fetch.url = "http://x/api/account/trades?limit=10"

\* the Client was constructed without a credential
NoCredential == ctorArgs.apiKey = ""

TrailingSlash(s) == Len(s) > 0 /\ Char(s, Len(s)) = "/"

C19_SecondSlashStripped ==
    /\ ctorArgs.normalized
    /\ ctorArgs.baseUrl = "http://x/"
    /\ client.baseUrl = "http://x"

\* the chain that the precedence explicit value > known-token table >
\* pattern gives the token of field tokenField
ResolvedChain(c, chainField, tokenField) ==
    IF In(chainField, call[c].args)
    THEN Argument(c, chainField)
    ELSE IF findTokenChainInfo(Argument(c, tokenField)).found
         THEN findTokenChainInfo(Argument(c, tokenField)).chain
         ELSE detectChain(Argument(c, tokenField))

\* C15: the body that executeTrade sends carries, for each token, the chain
\* the caller supplied; if the caller supplied none, the chain of the
\* known-token table entry of the address if there is one; and the chain
\* detectChain derives from the pattern only if there is neither.
C15_ChainPrecedence ==
    \A c \in CallIds :
        (call[c].name = "executeTrade" /\ call[c].nHttp > 0) =>
            /\ Get(SentBody(c), "fromChain")
                  = JStr(ResolvedChain(c, "fromChain", "fromToken"))
            /\ Get(SentBody(c), "toChain")
                  = JStr(ResolvedChain(c, "toChain", "toToken"))

\* executeTrade was called without fromChain for WETH written in capitals,
\* which the table knows as an EVM token, and has sent fromChain "svm"
C15_Witness ==
    \E c \in CallIds :
        /\ call[c].name = "executeTrade" /\ call[c].nHttp > 0
        /\ ~In("fromChain", call[c].args)
        /\ Argument(c, "fromToken") = UpperToken
        /\ findTokenChainInfo(UpperToken).chain = "evm"
        /\ Get(SentBody(c), "fromChain") = JStr("svm")

\* C20: a call of a Client endpoint method issues at most one HTTP request,
\* whatever becomes of it: a transport failure, a non-success status, a
\* body that does not parse, or success.
C20_AtMostOneRequest ==
    \A c \in CallIds : call[c].nHttp <= 1

\* executeTrade of the signed Client has issued a second request after its
\* first was refused with a message about cross-chain trading
C20_Witness ==
    \E c \in CallIds :
        /\ call[c].name = "executeTrade"
        /\ call[c].nHttp = 2
        /\ Contains(call[c].body.text, "cross-chain")

(***************************************************************************)
(* Properties of the running server                                        *)
(***************************************************************************)
\* C27: every HTTP request of the Client, whatever the endpoint and the
\* method, carries the header Authorization: Bearer <credential>, with the
\* credential the Client was constructed with (trimmed), the header
\* Content-Type: application/json and the header User-Agent:
\* TradingSimMCP/1.0.
C27_HeadersOnEveryRequest ==
    \A c \in CallIds :
        call[c].nHttp > 0 =>
            /\ call[c].fetch.headers.Authorization
                  = "Bearer " \o Trim(ctorArgs.apiKey)
            /\ call[c].fetch.headers.ContentType = "application/json"
            /\ call[c].fetch.headers.UserAgent = "TradingSimMCP/1.0"

\* execute_trade has sent its POST with the three headers, the credential
\* being the trimmed key
C27_Witness ==
    \E c \in CallIds :
        /\ call[c].name = "execute_trade" /\ call[c].nHttp > 0
        /\ call[c].fetch.method = "POST"
        /\ ctorArgs.apiKey = "  sk_test_4f9a  "
        /\ call[c].fetch.headers.Authorization = "Bearer sk_test_4f9a"
        /\ call[c].fetch.headers.UserAgent = "TradingSimMCP/1.0"

\* C28: call_tool("get_trades") without an argument bag, not cancelled,
\* passes validation and issues the request that a call with an empty
\* argument bag issues: the trade-history request without any filter.
C28_AbsentBagAccepted ==
    \A c \in CallIds :
        (/\ Started(c)
         /\ call[c].name = "get_trades"
         /\ ~call[c].args.present
         /\ ~call[c].aborted) =>
            /\ call[c].nHttp = 1
            /\ call[c].fetch = getTrades(client, <<>>)

\* get_trades without an argument bag was answered with the validation
\* error, and no request was sent
C28_Witness ==
    \E c \in CallIds :
        /\ Answered(c)
        /\ call[c].name = "get_trades"
        /\ ~call[c].args.present /\ ~call[c].aborted
        /\ call[c].nHttp = 0
        /\ IsError(c)
        /\ Text(c) = "Error: Invalid arguments for get_trades"

\* get_trades with an empty argument bag has sent the unfiltered request
C28_EmptyBagAccepted ==
    \E c \in CallIds :
        /\ call[c].name = "get_trades"
        /\ call[c].args = Args(<<>>)
        /\ call[c].nHttp = 1
        /\ call[c].fetch = getTrades(client, <<>>)

\* C26: the request of get_leaderboard carries competitionId=<value> in its
\* query string when the caller supplied a competitionId, and no
\* competitionId at all when the caller supplied none.
C26_CompetitionIdCarried ==
    \A c \in CallIds :
        (call[c].name = "get_leaderboard" /\ call[c].nHttp > 0) =>
            IF In("competitionId", call[c].args)
            THEN call[c].fetch.url =
                    client.baseUrl \o "/api/competition/leaderboard?competitionId="
                    \o Argument(c, "competitionId")
            ELSE call[c].fetch.url = client.baseUrl \o "/api/competition/leaderboard"

\* get_leaderboard called with competitionId "comp-1" has sent the request
\* for the leaderboard of the active competition
C26_Witness ==
    \E c \in CallIds :
        /\ call[c].name = "get_leaderboard" /\ call[c].nHttp > 0
        /\ In("competitionId", call[c].args)
        /\ Argument(c, "competitionId") = "comp-1"
        /\ call[c].fetch.url = client.baseUrl \o "/api/competition/leaderboard"

\* a list_tools request has been answered
Listed(c) == call[c].pc = "listed"

\* C24 as stated: every list_tools request is answered with the same
\* catalog, the tools of TRADING_SIM_TOOLS, whatever the state of the
\* request and whatever calls came before.
C24_SameCatalog ==
    \A c \in CallIds : Listed(c) => call[c].listed = TRADING_SIM_TOOLS

\* C24, amended: every list_tools request that was not cancelled before
\* its handler ran is answered with the same catalog, which holds
\* get_balances, get_portfolio and get_price, whatever calls came before;
\* a request that was already cancelled is answered with an empty list.
C24_SameCatalogUnlessCancelled ==
    \A c \in CallIds :
        Listed(c) =>
            /\ ~call[c].aborted =>
                  /\ call[c].listed = TRADING_SIM_TOOLS
                  /\ {"get_balances", "get_portfolio", "get_price"} \subseteq call[c].listed
            /\ call[c].aborted => call[c].listed = {}

\* list_tools is answered with the catalog after a tool call has been
\* served and while another call's request is in flight
C24_Witness ==
    \E c \in CallIds :
        /\ Listed(c) /\ ~call[c].aborted
        /\ call[c].listed = TRADING_SIM_TOOLS
        /\ served = 2
        /\ InFlightBeside(c)

\* C30: everything the running server writes to standard output is a
\* message of the protocol; no timer, handler or log statement writes
\* anything else there.
C30_OnlyProtocolOnStdout ==
    \A i \in 1..Len(stdout) : stdout[i].kind = "message"

\* the keep-alive text stands on standard output between the responses of
\* two tool calls
C30_Witness ==
    \E i \in 1..Len(stdout) :
        /\ i + 2 <= Len(stdout)
        /\ stdout[i].kind = "message"
        /\ stdout[i + 1] = Raw("// ping\n")
        /\ stdout[i + 2].kind = "message"

\* C21: a call that the host cancelled while its HTTP request was in
\* flight returns the "aborted" error result: whenever such a call has
\* returned, its result is the error envelope "Request aborted" (it did
\* not go on waiting for the remote API and return what came of that).
C21_CancelledReturnsAborted ==
    \A c \in CallIds :
        (Done(c) /\ call[c].cancelled) =>
            /\ Answered(c)
            /\ IsError(c)
            /\ Text(c) = "Request aborted"

\* a call cancelled while its request was in flight waited for the
\* response, read it, and returned the success envelope
C21_Witness ==
    \E c \in CallIds :
        /\ Answered(c) /\ call[c].cancelled
        /\ BodyRead(c) /\ call[c].status = 200
        /\ HasIsError(Envelope(c)) /\ Envelope(c).isError = FALSE

\* the Client as its constructor made it
ClientAsConstructed == Constructor(ctorArgs.apiKey, "", ctorArgs.baseUrl, FALSE)

\* what the handler does first when the call of slot c is the only call
\* the server ever gets
AloneFirst(c) ==
    CallTool(ClientAsConstructed, call[c].name, call[c].args, call[c].aborted)

\* the outcomes of the Client call for the HTTP exchange the call had
AloneOutcomes(c) ==
    CASE call[c].io = "read" -> {RequestSettled(call[c].status, call[c].body)}
      [] call[c].io = "fetch failed" ->
            {RequestNetworkError(e) : e \in TransportErrors}
      [] call[c].io = "read failed" ->
            {RequestReadError(e) : e \in TransportErrors}
      [] OTHER -> {}

\* the envelopes the call of slot c produces when it runs alone with the
\* same name and arguments and the same HTTP exchange
AloneEnvelopes(c) ==
    IF AloneFirst(c).kind = "return" THEN {AloneFirst(c).env}
    ELSE {CallToolSettled(call[c].name, o).env : o \in AloneOutcomes(c)}

\* C23: with calls arriving in any order and their HTTP requests in flight
\* at the same time, the Client keeps the credential and base URL its
\* constructor stored; every call sends the request that it sends when it
\* runs alone, and answers with the envelope that it answers with when it
\* runs alone with the same arguments and the same HTTP exchange.
C23_CallsAreIsolated ==
    /\ client = ClientAsConstructed
    /\ \A c \in CallIds :
          (Started(c) /\ ~Listed(c)) =>
              /\ call[c].nHttp > 0 =>
                    /\ AloneFirst(c).kind = "await"
                    /\ call[c].fetch = AloneFirst(c).fetch
              /\ call[c].nHttp = 0 => AloneFirst(c).kind = "return"
              /\ Done(c) => (Answered(c) /\ Envelope(c) \in AloneEnvelopes(c))

\* two calls whose requests were in flight at the same time have been
\* answered, one from a 200 response and one from a 401 response
C23_Witness ==
    \E c, d \in CallIds :
        /\ c # d
        /\ Answered(c) /\ Answered(d)
        /\ call[c].overlap
        /\ BodyRead(c) /\ call[c].status = 200 /\ ~IsError(c)
        /\ BodyRead(d) /\ call[d].status = 401 /\ IsError(d)

\* the tool names of the fixed catalog
FixedCatalog ==
    {"get_balances", "get_portfolio", "get_trades", "get_price",
     "get_token_info", "get_price_history", "execute_trade", "get_quote",
     "get_competition_status", "get_leaderboard", "get_competition_rules"}

\* C25: every name of the fixed catalog is among the tools list_tools
\* returns, and a call_tool for it is never answered "Unknown tool: <name>";
\* get_competition_rules in particular, when not cancelled, is resolved to
\* the Client's getCompetitionRules and sends its request.
C25_CatalogNamesResolved ==
    /\ FixedCatalog \subseteq ListToolsHandler(FALSE)
    /\ \A c \in CallIds :
          /\ (Answered(c) /\ call[c].name \in FixedCatalog) =>
                Text(c) # "Unknown tool: " \o call[c].name
          /\ (Started(c) /\ call[c].name = "get_competition_rules"
                /\ ~call[c].aborted) =>
                (call[c].nHttp = 1 /\ call[c].fetch = getCompetitionRules(client))

\* call_tool("get_competition_rules") was answered with the unknown-tool
\* error, without any request to the remote API
C25_Witness ==
    \E c \in CallIds :
        /\ Answered(c)
        /\ call[c].name = "get_competition_rules"
        /\ "get_competition_rules" \notin ListToolsHandler(FALSE)
        /\ call[c].nHttp = 0
        /\ IsError(c)
        /\ Text(c) = "Unknown tool: get_competition_rules"

\* the call passed the handler's validation: not cancelled on arrival, a
\* tool of the catalog, every required argument present
PassedValidation(c) ==
    /\ ~call[c].aborted
    /\ call[c].name \in Catalog
    /\ ~LacksRequired(c)

\* the Client call has settled: the status was examined and the body
\* decoded, or the transport failed
Decided(c) == call[c].outcome.kind # "pending"

\* C22: within one tool call the steps follow one another in the order
\* validate, build request, send, await response, parse, respond.  A request
\* is on the wire only for a call that passed validation, and it is the
\* request that was built; while the response is awaited, and while its
\* body is read, nothing has been decided and nothing returned; the status
\* is examined and the JSON decoded only once the whole body has been read
\* as text; the envelope is returned last.
C22_StepsInOrder ==
    \A c \in CallIds :
        (Started(c) /\ ~Listed(c)) =>
            /\ call[c].nHttp > 0 =>
                  (PassedValidation(c) /\ call[c].fetch.url # "")
            /\ call[c].pc = "fetching" =>
                  (call[c].io = "none" /\ ~Decided(c) /\ call[c].envelopes = <<>>)
            /\ call[c].pc = "reading" =>
                  (call[c].io = "responded" /\ ~Decided(c)
                   /\ call[c].envelopes = <<>>)
            /\ Decided(c) =>
                  call[c].io \in {"read", "fetch failed", "read failed"}
            /\ call[c].envelopes # <<>> =>
                  (Done(c) /\ (call[c].nHttp > 0 => Decided(c)))

\* a call that passed validation got a 500 response, read its body, which
\* is no JSON, as text, and then returned the error envelope
C22_Witness ==
    \E c \in CallIds :
        /\ Answered(c) /\ PassedValidation(c)
        /\ call[c].nHttp = 1
        /\ BodyRead(c) /\ call[c].status = 500
        /\ call[c].body.text = "not json"
        /\ Decided(c) /\ IsError(c)

(***************************************************************************)
(* Properties of the signed Client's fallback                              *)
(***************************************************************************)
ChainFields == {"fromChain", "toChain", "fromSpecificChain", "toSpecificChain"}

\* the second request of executeTrade has just been sent: what the call
\* holds of its HTTP exchange is still the first attempt
RetryStarted(c) ==
    /\ call[c].name = "executeTrade"
    /\ call[c].nHttp = 2
    /\ call[c].pc = "fetching"

\* the first attempt ended in an error about cross-chain trading
FirstFailedCrossChain(c) ==
    /\ call[c].io = "read"
    /\ ~Ok(call[c].status)
    /\ Contains(call[c].body.text, "cross-chain")

\* the caller left the chain of a side open and the table knows its token:
\* the first payload carried a chain assigned from the table
AutoAssigned(c) ==
    \/ /\ findTokenChainInfo(Argument(c, "fromToken")).found
       /\ ~In("fromChain", call[c].args) /\ ~In("fromSpecificChain", call[c].args)
    \/ /\ findTokenChainInfo(Argument(c, "toToken")).found
       /\ ~In("toChain", call[c].args) /\ ~In("toSpecificChain", call[c].args)

\* the table knows one of the two tokens of the trade
TokenKnown(c) ==
    \/ findTokenChainInfo(Argument(c, "fromToken")).found
    \/ findTokenChainInfo(Argument(c, "toToken")).found

\* the body of the request on the wire has exactly the chain fields the
\* caller supplied, with the caller's values
OnlyExplicitChains(c) ==
    \A k \in ChainFields :
        IF In(k, call[c].args)
        THEN Get(SentBody(c), k) = JStr(Argument(c, k))
        ELSE ~HasKey(SentBody(c), k)

\* one executeTrade call issues at most two requests, and when the second
\* has failed the call is rejected
AtMostOneRetry(c) ==
    /\ call[c].nHttp <= 2
    /\ (Called(c, "executeTrade") /\ call[c].nHttp = 2
          /\ (call[c].io # "read" \/ ~Ok(call[c].status) \/ ~call[c].body.parses)) =>
            call[c].outcome.kind = "rejected"

====
